---------------------------- MODULE Spec2Model ----------------------------
(***************************************************************************)
(* A model of the crawl engine of my_crawler.                              *)
(*                                                                         *)
(*   Spec       the orchestrator (CrawlLoop) and its runners               *)
(*              (CrawlRunner::start) of spider/src/crawl_loop.rs           *)
(*   SpecCrawl  the POST /crawl handler of spider/src/main.rs              *)
(*   SpecDedup  concurrent callers of ContentDedup::is_duplicate           *)
(*              (spider/src/dedup.rs)                                      *)
(*                                                                         *)
(* Variables whose names start with g_ are history variables: they record  *)
(* what the code did (fetches issued, pages handed to the indexer, ...)    *)
(* and are never read by an action's guard or by the program state.        *)
(***************************************************************************)
EXTENDS Integers, Sequences, FiniteSets, TLC

(***************************************************************************)
(* Bounds of the model.                                                    *)
(***************************************************************************)
\* number of runners CrawlLoop::run spawns (settings.max_concurrent_requests;
\* the default of crawl_loop.rs:60 is 4, scaled down here)
NumRunners == 2
\* number of add_crawl_request calls in a behaviour
MaxJobs == 2
\* largest max_pages a job is enqueued with
MaxPages == 2
\* largest max_depth a job is enqueued with
MaxDepth == 0
\* longest list of links extract_links returns for one page
MaxLinks == 2
\* the rate limiter's minimum interval 1/max_rps_per_base_url, in clock ticks
MinInterval == 1
\* number of tasks calling ContentDedup::is_duplicate concurrently
NumCallers == 2
\* number of is_duplicate calls in a behaviour
MaxCalls == 3
\* largest depth a POST /crawl request asks for
MaxLevels == 2
MaxChunks == 2
MaxBlocks == 3
MaxResults == 3
MaxOps == 4
MaxRuns == 2
MaxText == 2
\* most children of one element of a page
MaxChildren == 2

(***************************************************************************)
(* Program constants.                                                      *)
(***************************************************************************)
max_rps_per_base_url == 10
browser_fallback_min_html_size == 1024
MIN_CHUNK_TOKENS == 300
MAX_CHUNK_TOKENS == 700
\* RankingConfig::default, in thousandths: 0.5, 0.05, 0.03 and 3.0
url_length_boost_factor == 500
domain_root_boost == 50
path_depth_penalty == 30
exact_match_boost == 3000
\* CrawlLoopSettings::default: the fallback is enabled
browser_fallback_enabled == TRUE

(***************************************************************************)
(* The web the crawler runs against: origin a with two pages, origin b with one.  A   *)
(* URL is origin o, path p and a flag s: the string ends with '/'.         *)
(*   [o |-> "a", p |-> "",  s |-> TRUE ]  is  https://a.test/              *)
(*   [o |-> "a", p |-> "x", s |-> FALSE]  is  https://a.test/x             *)
(***************************************************************************)
Origins == {"a", "b"}
PathsOf(o) == IF o = "a" THEN {"", "x", "y"} ELSE {""}
RawUrls == UNION {{[o |-> o, p |-> p, s |-> s] : p \in PathsOf(o), s \in BOOLEAN} : o \in Origins}
SeedUrls == {u \in RawUrls : u.p = "" /\ u.s}

\* web_visitor::normalize_url: strip the trailing '/'
normalize_url(u) == [u EXCEPT !.s = FALSE]
\* web_visitor::get_base_url: scheme://host[:port]
get_base_url(u) == u.o

NormUrls == {normalize_url(u) : u \in RawUrls}

(***************************************************************************)
(* Page bodies.  The text of a body is a short string over Chars; pad is   *)
(* the number of bytes more of the same kind the body holds, spa says that *)
(* it holds one of the client-side-rendering markers of                    *)
(* crawl_loop.rs:226-234.                                                  *)
(***************************************************************************)
Chars == {"a", "A", "b", " "}
Texts == {<<>>, <<" ">>, <<"a">>, <<"A", " ">>, <<"b">>}
HtmlsPadded(pads) ==
    {h \in [text : Texts, pad : pads, spa : BOOLEAN] : h.spa => h.text \notin {<<>>, <<" ">>}}
\* the bodies the runners' fetches return: short ones and ones of some 2048 bytes
Htmls == HtmlsPadded({0, 2046})

\* char::to_lowercase
Lower(c) == IF c = "A" THEN "a" ELSE c

RECURSIVE SplitWs(_, _, _)
\* str::split_whitespace: the maximal runs of non-whitespace characters
SplitWs(s, word, acc) ==
    IF s = <<>> THEN (IF word = <<>> THEN acc ELSE Append(acc, word))
    ELSE IF Head(s) = " "
         THEN SplitWs(Tail(s), <<>>, IF word = <<>> THEN acc ELSE Append(acc, word))
         ELSE SplitWs(Tail(s), Append(word, Head(s)), acc)

RECURSIVE JoinSp(_)
\* [&str]::join(" ")
JoinSp(ws) ==
    IF ws = <<>> THEN <<>>
    ELSE IF Len(ws) = 1 THEN ws[1]
    ELSE ws[1] \o <<" ">> \o JoinSp(Tail(ws))

\* a normalize that keeps the case
Normalize_keep_case(content) == JoinSp(SplitWs(content, <<>>, <<>>))

\* ContentDedup::normalize: lowercase, collapse whitespace runs, trim
Normalize(content) ==
    JoinSp(SplitWs([i \in 1..Len(content) |-> Lower(content[i])], <<>>, <<>>))

\* ContentDedup::hash: SHA-256 of the normalized content (taken collision free)
Hash(content) == Normalize(content)

\* str::trim().is_empty()
IsBlank(text) == \A i \in 1..Len(text) : text[i] = " "
\* String::len() of a body
HtmlLen(h) == Len(h.text) + h.pad

(***************************************************************************)
(* robots.txt as the origins serve it: origin a disallows /x, origin b has *)
(* no robots.txt (404).                                                    *)
(***************************************************************************)
\* RobotsCache::fetch_robots: Fetched(body) on 2xx, Failed otherwise
fetch_robots(origin) ==
    IF origin = "a" THEN [kind |-> "Fetched", disallow |-> {"x"}]
    ELSE [kind |-> "Failed", disallow |-> {}]

\* RobotsCache::check_allowed: Failed allows everything (fail open)
check_allowed(result, path) ==
    IF result.kind = "Fetched" THEN path \notin result.disallow ELSE TRUE

\* what RobotsCache::is_allowed answers for url
is_allowed(url) == check_allowed(fetch_robots(url.o), url.p)

(***************************************************************************)
(* State of the orchestrator and its runners (crawl_loop.rs).              *)
(***************************************************************************)
Runners == 1..NumRunners

NoUrl == [o |-> "", p |-> "", s |-> FALSE]
NoJob == [id |-> 0, url |-> NoUrl, max_pages |-> 0, same_domain |-> FALSE, max_depth |-> 0]
\* the requests add_crawl_request is called with
Requests == [url : SeedUrls, max_pages : 1..MaxPages, same_domain : BOOLEAN,
             max_depth : 0..MaxDepth]

VARIABLES
    crawl_requests,      \* CrawlLoop.crawl_requests: base_url -> CrawlRequest (NoJob: no entry)
    shutdown,            \* CrawlLoop.shutdown: TRUE while running, stop() stores FALSE
    last_request_times,  \* base_url -> ticks since the recorded Instant, capped (-1: no entry)
    handles,             \* CrawlLoop.runners: the runners whose JoinHandle the loop holds
    abort_requested,     \* runners whose task JoinHandle::abort was called on
    run_calls,           \* number of CrawlLoop::run calls so far
    weaviate_client,     \* CrawlLoop.weaviate_client is Some
    pc,                  \* where each runner task stands
    job,                 \* crawl_request of the runner
    to_visit,            \* the runner's frontier (VecDeque)
    visited,             \* the runner's visited set
    pages_crawled,       \* the runner's page counter
    url,                 \* the URL the runner is working on
    wait,                \* ticks left of the runner's rate-limit sleep
    g_next_id,           \* number of jobs enqueued so far
    g_claims,            \* id of an enqueued job -> number of times a runner claimed it
    g_fetched,           \* per runner: URLs the fetcher was invoked for in this job, in order
    g_pushed,            \* per runner: URLs pushed onto the frontier in this job, in order
    g_depth,             \* per runner: normalized URL -> BFS depth it was pushed at (-1: never)
    g_handed,            \* per runner: pages handed to the indexer in this job
    g_failed,            \* per runner: URLs whose fetch returned an error in this job
    g_index_err          \* per runner: URLs of this job whose indexing returned an error

VARIABLES
    seen_hashes,         \* ContentDedup.seen_hashes
    d_readers,           \* callers holding the read lock of seen_hashes
    d_writer,            \* caller holding the write lock of seen_hashes (0: nobody)
    d_pc,                \* where each caller of is_duplicate stands
    d_content,           \* the content each caller passed
    g_calls,             \* number of is_duplicate calls started so far
    g_returned           \* hash -> number of calls that returned true (t), that returned
                         \* false (f), that returned true from the write-lock re-check (w)

VARIABLES
    h_pc,                \* where the POST /crawl handler stands
    req,                 \* the CrawlRequest it was called with
    current_depth,       \* the level of its for loop
    urls_to_crawl,       \* the URLs of the level
    h_next,              \* index in urls_to_crawl of the next URL of the inner loop
    next_level_urls,     \* the URLs collected for the next level
    crawled_urls,        \* the HashSet of URLs fetched successfully
    all_urls,            \* the URLs of the response, in the order they were indexed
    pages_indexed,       \* its counter of index_page_safe_with_client calls
    g_requested          \* the URLs fetch_page was called with in this request, in order

crawlVars == <<h_pc, req, current_depth, urls_to_crawl, h_next, next_level_urls, crawled_urls,
              all_urls, pages_indexed, g_requested>>

VARIABLES
    b_pc,                \* where each caller of BrowserPool::fetch_page stands
    b_lock,              \* the caller holding the guard of BrowserPool._lock (0: nobody)
    b_url,               \* the url each caller passed
    b_result,            \* what the last call of each caller returned
    BROWSER_POOL,        \* the OnceCell: 0 while unset, else the BrowserPool it holds
    b_init,              \* the caller running the initializer of the cell (0: nobody)
    b_pool,              \* per caller: the pool BrowserPool::get() gave it (0: none)
    g_inits              \* number of BrowserPool values initialize() has returned

browserVars == <<b_pc, b_lock, b_url, b_result, BROWSER_POOL, b_init, b_pool, g_inits>>

VARIABLES
    f_enabled,           \* settings.browser_fallback_enabled of the fetch looked at
    f_html,              \* the body web_visitor.fetch_page returned
    f_browser,           \* what the browser fetcher returns if it is asked
    f_calls,             \* number of calls of the browser fetcher made for the page
    f_final              \* the body the runner goes on with (NoResult: fetch not handled yet)

fetchVars == <<f_enabled, f_html, f_browser, f_calls, f_final>>

VARIABLES
    store,               \* the Weaviate class: object ID -> properties (NoObject: no such object)
    w_pc,                \* position of index_page_with_client
    w_impl,              \* the module whose index_page_with_client runs: "weaviate" or "index"
    w_url,               \* its url
    w_chunks,            \* the chunks extract_webpage_data returned
    w_i,                 \* the loop index (0-based)
    g_n,                 \* per URL: number of chunks of the call before, if it returned Ok (else 0)
    g_ids                \* per URL: the IDs of its objects when that call returned

indexVars == <<store, w_pc, w_impl, w_url, w_chunks, w_i, g_n, g_ids>>

VARIABLES
    k_pc,                \* position of extract_webpage_data: "idle", "chunking", "done"
    k_page,              \* url, title and description of the page
    k_nblocks,           \* number of content blocks create_chunks has taken
    current_words,       \* create_chunks: words of current_chunk_text
    current_sentences,   \* create_chunks: sentences of current_chunk_text
    current_tokens,      \* create_chunks: current_tokens
    chunks,              \* create_chunks: chunks
    k_result             \* the vector extract_webpage_data returned

chunkVars == <<k_pc, k_page, k_nblocks, current_words, current_sentences,
               current_tokens, chunks, k_result>>

VARIABLES
    cache,               \* RobotsCache.cache: origin -> RobotsTxtResult (NoEntry: no key)
    r_pc,                \* per caller: position in RobotsCache::is_allowed
    r_url,               \* per caller: its url
    r_response,          \* per caller: what the GET of robots.txt came to
    r_result,            \* per caller: result of its fetch_robots
    r_ret,               \* per caller: the value returned ("none": not returned)
    pages_skipped_robots, \* CrawlStats.pages_skipped_robots
    g_robots_fetches     \* per origin: number of GETs of its robots.txt so far

robotsVars == <<cache, r_pc, r_url, r_response, r_result, r_ret, pages_skipped_robots,
                g_robots_fetches>>

VARIABLES
    rk_pc,               \* the re-ranker: "idle", "ranked"
    rk_results,          \* the results of the hybrid search, in the order of the store
    rk_query_empty,      \* whether the query is the empty string
    rk_k,                \* the result whose base score is increased
    rk_raised,           \* rk_results with the base score of result rk_k increased
    rk_out,              \* apply_ranking_boosts of rk_results
    rk_out_raised        \* apply_ranking_boosts of rk_raised

rankVars == <<rk_pc, rk_results, rk_query_empty, rk_k, rk_raised, rk_out, rk_out_raised>>

VARIABLES
    s_pc,                \* GET /search: "idle", "answered"
    s_items,             \* the objects the hybrid query returned, in the order of the store
    s_parsed,            \* the places of the objects WebPageResult::from_weaviate_json accepts
    s_query_empty,       \* whether the query is the empty string
    s_status,            \* HTTP status of the response
    s_response           \* SearchResult.results: id (place in s_items) and score

searchVars == <<s_pc, s_items, s_parsed, s_query_empty, s_status, s_response>>

VARIABLES
    pending_urls,        \* CrawlState: the rows of table pending_urls
    visited_urls,        \* CrawlState: the rows of table visited_urls
    t_ops,               \* number of statements run so far (the clock of the tables)
    t_last               \* the last operation, with the counts before it

stateVars == <<pending_urls, visited_urls, t_ops, t_last>>

VARIABLES
    cl_shutdown,         \* CrawlLoop.shutdown: TRUE while running, stop() stores FALSE
    cl_runners,          \* CrawlLoop.runners: the tasks whose CrawlRunner is in the Vec
    cl_runs,             \* number of run() calls so far
    cl_pc,               \* per task: "none", "check", "claim", "job", "fetch", "exited", "aborted"
    cl_abort,            \* the tasks whose JoinHandle was aborted
    cl_requests,         \* crawl_requests: per base URL, whether it holds a request
    cl_job,              \* per task: "none", or when its job was enqueued: "before" / "after" stop()
    g_stopped,           \* stop() has been called
    g_enq_after,         \* per base URL: its request was enqueued after stop()
    g_late,              \* the tasks spawned by a run() after stop()
    g_event              \* per base URL: what happened last to its request

taskVars == <<cl_shutdown, cl_runners, cl_runs, cl_pc, cl_abort, cl_requests, cl_job,
              g_stopped, g_enq_after, g_late, g_event>>

VARIABLES
    bo_pc,               \* the exact-match step of apply_ranking_boost: "idle", "boosted"
    bo_query,            \* the query
    bo_url,              \* result.data.source_url
    bo_title,            \* result.data.page_title
    bo_base,             \* result.score before the step
    bo_score             \* result.score after the step

boostVars == <<bo_pc, bo_query, bo_url, bo_title, bo_base, bo_score>>

VARIABLES
    cw_pc,               \* create_chunks on the texts of blocks: "idle", "done"
    cw_blocks,           \* the texts of the blocks passed to create_chunks
    cw_chunks            \* the contents of the chunks it returned

wordVars == <<cw_pc, cw_blocks, cw_chunks>>

VARIABLES
    el_pc,               \* extract_links: "idle", "done"
    el_fn,               \* which extract_links ran: "web_visitor" or "main"
    el_base,             \* its base_url
    el_elements,         \* the a[href] elements of the page, in document order
    el_links             \* the Vec it returned

linkVars == <<el_pc, el_fn, el_base, el_elements, el_links>>

VARIABLES
    eb_pc,               \* block extraction: "idle", "done"
    eb_fn,               \* which extract_blocks_from_element ran: "extractor_content" or "index"
    eb_doc,              \* the children of the content element, in document order
    eb_blocks            \* the blocks it returned

blockVars == <<eb_pc, eb_fn, eb_doc, eb_blocks>>

VARIABLES
    pl_pc,               \* POST /plagiat: "idle", "answered"
    pl_threshold,        \* req.threshold, in tenths
    pl_items,            \* the objects the store returned
    pl_status,           \* the status of the response
    pl_response          \* the PlagiatResult of the response

plagiatVars == <<pl_pc, pl_threshold, pl_items, pl_status, pl_response>>

\* the variables of the components modelled apart from the crawl loop, the
\* dedup set and the handler
auxVars == <<browserVars, fetchVars, indexVars, chunkVars, robotsVars, rankVars,
            searchVars,
            stateVars,
            taskVars,
            boostVars,
            wordVars,
            linkVars,
            blockVars,
            plagiatVars>>

VARIABLES
    d_ret,               \* per caller: what its last is_duplicate returned ("none": running)
    g_submitted,         \* the bodies is_duplicate has been called with
    g_finished,          \* the bodies of the calls that have returned
    g_before,            \* per caller: the bodies of the calls that had returned when its call began
    g_other,             \* per caller: the bodies of the other calls begun before its call returned
    g_false              \* number of calls that returned false

dedupHist == <<d_ret, g_submitted, g_finished, g_before, g_other, g_false>>

dedupVars == <<seen_hashes, d_readers, d_writer, d_pc, d_content, g_calls, g_returned,
               dedupHist>>

loopVars == <<crawl_requests, shutdown, last_request_times, handles, abort_requested, run_calls,
             weaviate_client>>
runnerVars == <<pc, job, to_visit, visited, pages_crawled, url, wait>>
ghostVars == <<g_next_id, g_claims, g_fetched, g_pushed, g_depth, g_handed, g_failed,
               g_index_err>>
coreVars == <<loopVars, runnerVars, ghostVars, dedupVars, crawlVars>>
vars == <<coreVars, auxVars>>

NoDepth == [u \in NormUrls |-> -1]

Callers == 1..NumCallers
Hashes == {Hash(t) : t \in Texts}

\* ContentDedup::new, nobody calling yet
DedupInit ==
    /\ seen_hashes = {}
    /\ d_readers = {}
    /\ d_writer = 0
    /\ d_pc = [c \in Callers |-> "idle"]
    /\ d_content = [c \in Callers |-> <<>>]
    /\ g_calls = 0
    /\ g_returned = [h \in Hashes |-> [t |-> 0, f |-> 0, w |-> 0]]
    /\ d_ret = [c \in Callers |-> "none"]
    /\ g_submitted = {}
    /\ g_finished = {}
    /\ g_before = [c \in Callers |-> {}]
    /\ g_other = [c \in Callers |-> {}]
    /\ g_false = 0

NoReq == [url |-> NoUrl, depth |-> 0, max_pages |-> 0]

\* the handler before its first request
CrawlInit ==
    /\ h_pc = "ready"
    /\ req = NoReq
    /\ current_depth = 0
    /\ urls_to_crawl = <<>>
    /\ h_next = 1
    /\ next_level_urls = <<>>
    /\ crawled_urls = {}
    /\ all_urls = <<>>
    /\ pages_indexed = 0
    /\ g_requested = <<>>

NoResult == [ok |-> FALSE, text |-> <<"none">>]

\* the browser pool with no call in flight
BrowserInit ==
    /\ b_pc = [c \in Callers |-> "idle"]
    /\ b_lock = 0
    /\ b_url = [c \in Callers |-> NoUrl]
    /\ b_result = [c \in Callers |-> NoResult]
    /\ BROWSER_POOL = 0
    /\ b_init = 0
    /\ b_pool = [c \in Callers |-> 0]
    /\ g_inits = 0

\* no body fetched yet
NoHtml == [text |-> <<"none">>, pad |-> 0, spa |-> FALSE]

\* no page has been fetched
FetchInit ==
    /\ f_enabled = browser_fallback_enabled
    /\ f_html = NoHtml
    /\ f_browser = NoResult
    /\ f_calls = 0
    /\ f_final = NoResult

\* the pages that get indexed, and the texts of their chunks
IndexedUrls == {"a/", "a/x"}
ChunkTexts == {"p", "q"}
ChunkLists == UNION {[1..n -> ChunkTexts] : n \in 1..MaxChunks}

\* format!("{}#chunk{}", url, chunk_index), the name that is hashed
url_with_chunk(page_url, chunk_index) == <<page_url, "#chunk", chunk_index>>

\* an ID that depends on the URL only
generate_uuid_from_url(page_url, chunk_index) == url_with_chunk(page_url, 0)

\* Uuid::new_v5(&URL_NAMESPACE, name): SHA-1 of the name, taken to be free of
\* collisions, so that the ID stands for the name
generate_uuid_from_url_and_chunk(page_url, chunk_index) == url_with_chunk(page_url, chunk_index)

ObjectIds == {url_with_chunk(u, i) : u \in IndexedUrls, i \in 0..(MaxChunks - 1)}
NoObject == "none"

\* the objects of a URL in the store
IdsOf(page_url) == {id \in ObjectIds : id[1] = page_url /\ store[id] # NoObject}

\* an empty class, nothing being indexed
IndexInit ==
    /\ store = [id \in ObjectIds |-> NoObject]
    /\ w_pc = "idle"
    /\ w_impl = "index"
    /\ w_url = "a/"
    /\ w_chunks = <<>>
    /\ w_i = 0
    /\ g_n = [u \in IndexedUrls |-> 0]
    /\ g_ids = [u \in IndexedUrls |-> {}]

\* the pages extract_webpage_data is given: url, title and description
Pages == {[url |-> "a/", title |-> "T", description |-> "D"],
          [url |-> "a/x", title |-> "", description |-> ""]}
NoPage == [url |-> "", title |-> "", description |-> ""]

\* nothing extracted yet
ChunkInit ==
    /\ k_pc = "idle"
    /\ k_page = NoPage
    /\ k_nblocks = 0
    /\ current_words = 0
    /\ current_sentences = 0
    /\ current_tokens = 0
    /\ chunks = <<>>
    /\ k_result = <<>>

\* a cache without a key
NoEntry == [kind |-> "None", disallow |-> {}]
Failed == [kind |-> "Failed", disallow |-> {}]

\* the urls is_allowed is asked about: some of origin a, one of origin b and one
\* that Url::parse rejects
RobotsUrls ==
    {[valid |-> TRUE, o |-> "a", p |-> ""], [valid |-> TRUE, o |-> "a", p |-> "x"],
     [valid |-> TRUE, o |-> "b", p |-> ""], [valid |-> FALSE, o |-> "", p |-> ""]}
NoRobotsUrl == [valid |-> FALSE, o |-> "none", p |-> ""]

\* what the GET of {origin}/robots.txt can come to: no response (network error,
\* timeout), or a status with a body that can or cannot be read
NoResponse == [sent |-> FALSE, status |-> 0, readable |-> FALSE, disallow |-> {}]
Responses ==
    {NoResponse}
    \cup {[sent |-> TRUE, status |-> st, readable |-> rd, disallow |-> d] :
             st \in {200, 301, 404, 503}, rd \in BOOLEAN, d \in {{}, {"x"}}}

\* a fetch that reads a 5xx answer as a robots.txt that disallows every path
RobotsTxtResultOf_deny5xx(response) ==
    IF response.sent /\ response.status >= 500
    THEN [kind |-> "Fetched", disallow |-> {"", "x"}]
    ELSE Failed

\* RobotsCache::fetch_robots: Fetched(body) for a 2xx answer whose body could
\* be read, Failed for everything else
RobotsTxtResultOf(response) ==
    IF response.sent /\ response.status >= 200 /\ response.status < 300 /\ response.readable
    THEN [kind |-> "Fetched", disallow |-> response.disallow]
    ELSE Failed

\* RobotsCache::new
RobotsInit ==
    /\ cache = [o \in Origins |-> NoEntry]
    /\ r_pc = [c \in Callers |-> "idle"]
    /\ r_url = [c \in Callers |-> NoRobotsUrl]
    /\ r_response = [c \in Callers |-> NoResponse]
    /\ r_result = [c \in Callers |-> NoEntry]
    /\ r_ret = [c \in Callers |-> "none"]
    /\ pages_skipped_robots = 0
    /\ g_robots_fetches = [o \in Origins |-> 0]

\* nothing ranked yet
RankInit ==
    /\ rk_pc = "idle"
    /\ rk_results = <<>>
    /\ rk_query_empty = TRUE
    /\ rk_k = 0
    /\ rk_raised = <<>>
    /\ rk_out = <<>>
    /\ rk_out_raised = <<>>

\* no search answered yet
SearchInit ==
    /\ s_pc = "idle"
    /\ s_items = <<>>
    /\ s_parsed = {}
    /\ s_query_empty = TRUE
    /\ s_status = 0
    /\ s_response = <<>>

\* the rows add_pending is called with
PendingArgs ==
    {a \in [url : {"u", "v"}, retry_count : {0, 1}, depth : {0, 1}, domain : {"a", "b"}] :
        a.url = "v" => (a.domain = "b" /\ a.retry_count = 0)}
NoOp == [op |-> "none", url |-> "", retry_count |-> 0, depth |-> 0, domain |-> "",
         was_there |-> FALSE, pending_before |-> 0, visited_before |-> {}]

\* CrawlState::new on a fresh database
StateInit ==
    /\ pending_urls = {}
    /\ visited_urls = {}
    /\ t_ops = 0
    /\ t_last = NoOp

\* the tasks that MaxRuns calls of run() spawn
TaskIds == 1..(MaxRuns * NumRunners)

\* CrawlLoop::new (crawl_loop.rs:380-389): no runners, no requests, shutdown true
TaskInit ==
    /\ cl_shutdown = TRUE
    /\ cl_runners = {}
    /\ cl_runs = 0
    /\ cl_pc = [t \in TaskIds |-> "none"]
    /\ cl_abort = {}
    /\ cl_requests = [o \in Origins |-> FALSE]
    /\ cl_job = [t \in TaskIds |-> "none"]
    /\ g_stopped = FALSE
    /\ g_enq_after = [o \in Origins |-> FALSE]
    /\ g_late = {}
    /\ g_event = [o \in Origins |-> "none"]

BoostInit ==
    /\ bo_pc = "idle"
    /\ bo_query = <<>>
    /\ bo_url = <<>>
    /\ bo_title = <<>>
    /\ bo_base = 0
    /\ bo_score = 0

WordInit ==
    /\ cw_pc = "idle"
    /\ cw_blocks = <<>>
    /\ cw_chunks = <<>>

\* no URL string
NoLink == [scheme |-> "", www |-> FALSE, host |-> "", path |-> "", slash |-> FALSE, frag |-> FALSE]

LinkInit ==
    /\ el_pc = "idle"
    /\ el_fn = "none"
    /\ el_base = NoLink
    /\ el_elements = <<>>
    /\ el_links = <<>>

BlockInit ==
    /\ eb_pc = "idle"
    /\ eb_fn = "none"
    /\ eb_doc = <<>>
    /\ eb_blocks = <<>>

\* no PlagiatResult
NoPlagiatResult == [is_plagiat |-> FALSE, similarity_score |-> 0, matched_documents |-> <<>>]

PlagiatInit ==
    /\ pl_pc = "idle"
    /\ pl_threshold = 0
    /\ pl_items = <<>>
    /\ pl_status = 0
    /\ pl_response = NoPlagiatResult

\* CrawlLoop::new
Init ==
    /\ crawl_requests = [o \in Origins |-> NoJob]
    /\ shutdown = TRUE
    /\ last_request_times = [o \in Origins |-> -1]
    /\ handles = {}
    /\ abort_requested = {}
    /\ run_calls = 0
    /\ weaviate_client = FALSE
    /\ pc = [r \in Runners |-> "none"]
    /\ job = [r \in Runners |-> NoJob]
    /\ to_visit = [r \in Runners |-> <<>>]
    /\ visited = [r \in Runners |-> {}]
    /\ pages_crawled = [r \in Runners |-> 0]
    /\ url = [r \in Runners |-> NoUrl]
    /\ wait = [r \in Runners |-> 0]
    /\ g_next_id = 0
    /\ g_claims = [i \in 1..MaxJobs |-> 0]
    /\ g_fetched = [r \in Runners |-> <<>>]
    /\ g_pushed = [r \in Runners |-> <<>>]
    /\ g_depth = [r \in Runners |-> NoDepth]
    /\ g_handed = [r \in Runners |-> {}]
    /\ g_failed = [r \in Runners |-> {}]
    /\ g_index_err = [r \in Runners |-> {}]
    /\ DedupInit
    /\ CrawlInit
    /\ BrowserInit
    /\ FetchInit
    /\ IndexInit
    /\ ChunkInit
    /\ RobotsInit
    /\ RankInit
    /\ SearchInit
    /\ StateInit
    /\ TaskInit
    /\ BoostInit
    /\ WordInit
    /\ LinkInit
    /\ BlockInit
    /\ PlagiatInit

(***************************************************************************)
(* The orchestrator: CrawlLoop.                                            *)
(***************************************************************************)
\* CrawlLoop::set_weaviate_client; runners copy the client when run() builds them
set_weaviate_client ==
    /\ run_calls = 0
    /\ ~weaviate_client
    /\ weaviate_client' = TRUE
    /\ UNCHANGED <<crawl_requests, shutdown, last_request_times, handles, abort_requested,
                   run_calls, runnerVars, ghostVars>>

\* an enqueue that keeps the request the map already holds for the base URL
add_crawl_request_keep(crawl_request) ==
    /\ g_next_id < MaxJobs
    /\ g_next_id' = g_next_id + 1
    /\ crawl_requests' =
          IF crawl_requests[get_base_url(crawl_request.url)] # NoJob THEN crawl_requests
          ELSE [crawl_requests EXCEPT ![get_base_url(crawl_request.url)] =
                   [id |-> g_next_id + 1, url |-> crawl_request.url,
                    max_pages |-> crawl_request.max_pages,
                    same_domain |-> crawl_request.same_domain,
                    max_depth |-> crawl_request.max_depth]]
    /\ UNCHANGED <<shutdown, last_request_times, handles, abort_requested, run_calls,
                   weaviate_client, runnerVars, g_claims, g_fetched, g_pushed, g_depth,
                   g_handed, g_failed, g_index_err>>

\* CrawlLoop::add_crawl_request: insert under the write lock, keyed by base URL
add_crawl_request(crawl_request) ==
    /\ g_next_id < MaxJobs
    /\ g_next_id' = g_next_id + 1
    /\ crawl_requests' = [crawl_requests EXCEPT ![get_base_url(crawl_request.url)] =
            [id |-> g_next_id + 1, url |-> crawl_request.url,
             max_pages |-> crawl_request.max_pages,
             same_domain |-> crawl_request.same_domain,
             max_depth |-> crawl_request.max_depth]]
    /\ UNCHANGED <<shutdown, last_request_times, handles, abort_requested, run_calls,
                   weaviate_client, runnerVars, g_claims, g_fetched, g_pushed, g_depth,
                   g_handed, g_failed, g_index_err>>

\* CrawlLoop::run: build and start max_concurrent_requests runners (called once here)
run ==
    /\ run_calls = 0
    /\ run_calls' = 1
    /\ pc' = [r \in Runners |-> "idle"]
    /\ handles' = Runners
    /\ UNCHANGED <<crawl_requests, shutdown, last_request_times, abort_requested,
                   weaviate_client, job, to_visit, visited, pages_crawled, url, wait,
                   ghostVars>>

\* CrawlLoop::stop: store the flag, abort every runner task, clear the list
stop ==
    /\ shutdown
    /\ shutdown' = FALSE
    /\ abort_requested' = abort_requested \cup handles
    /\ handles' = {}
    /\ UNCHANGED <<crawl_requests, last_request_times, run_calls, weaviate_client,
                   runnerVars, ghostVars>>

\* the runtime drops a task JoinHandle::abort was called on at a suspension point
Cancel(r) ==
    /\ r \in abort_requested
    /\ pc[r] \in {"idle", "claim", "crawl", "sleep", "fetch", "index"}
    /\ pc' = [pc EXCEPT ![r] = "aborted"]
    /\ UNCHANGED <<loopVars, job, to_visit, visited, pages_crawled, url, wait, ghostVars>>

\* time passes: recorded Instants age, sleeps run down
Tick ==
    /\ \/ \E o \in Origins : last_request_times[o] \in 0..(MinInterval - 1)
       \/ \E r \in Runners : wait[r] > 0
    /\ last_request_times' = [o \in Origins |->
            IF last_request_times[o] \in 0..(MinInterval - 1)
            THEN last_request_times[o] + 1 ELSE last_request_times[o]]
    /\ wait' = [r \in Runners |-> IF wait[r] > 0 THEN wait[r] - 1 ELSE 0]
    /\ UNCHANGED <<crawl_requests, shutdown, handles, abort_requested, run_calls,
                   weaviate_client, pc, job, to_visit, visited, pages_crawled, url,
                   ghostVars>>

(***************************************************************************)
(* A runner task: the closure CrawlRunner::start spawns.                   *)
(*   idle    at the top of the outer loop                                  *)
(*   claim   shutdown read as running, waiting for the job set write lock  *)
(*   crawl   at the guard of the per-job while loop                        *)
(*   sleep   sleeping to respect the rate limit (lock released)            *)
(*   fetch   waiting for the fetcher                                       *)
(*   index   page counted and handed over, waiting for the indexer         *)
(***************************************************************************)
InSeq(x, q) == \E i \in 1..Len(q) : q[i] = x

\* a link loop that pushes every link, normalized
Accepted_unchecked(q, vis, links, j) == [i \in 1..Len(links) |-> normalize_url(links[i])]

RECURSIVE Accepted(_, _, _, _)
\* the link loop of crawl_loop.rs:312-328: the normalized links it pushes, in order
Accepted(q, vis, links, j) ==
    IF links = <<>> THEN <<>>
    ELSE LET link == Head(links)
             normalized == normalize_url(link)
         IN IF j.same_domain /\ get_base_url(link) # get_base_url(j.url)
            THEN Accepted(q, vis, Tail(links), j)
            ELSE IF normalized \notin vis /\ ~InSeq(normalized, q)
                 THEN <<normalized>> \o Accepted(Append(q, normalized), vis, Tail(links), j)
                 ELSE Accepted(q, vis, Tail(links), j)

\* a push_front in place of the push_back
PushLinks_front(q, vis, links, j) == Accepted(q, vis, links, j) \o q

\* to_visit.push_back of every accepted link
PushLinks(q, vis, links, j) == q \o Accepted(q, vis, links, j)

\* a claim that reads the request and leaves it in the map
take_request_keep(map, key) == map

\* map.remove(&key) of the claim
take_request(map, key) == [map EXCEPT ![key] = NoJob]

\* a while guard that does not read the shutdown flag
LoopGuard_no_shutdown(r) ==
    /\ pages_crawled[r] < job[r].max_pages
    /\ to_visit[r] # <<>>

\* the guard of the per-job while loop, crawl_loop.rs:163-165
\* a loop condition without the page budget
LoopGuard_no_budget(r) ==
    /\ shutdown
    /\ to_visit[r] # <<>>

LoopGuard(r) ==
    /\ shutdown
    /\ pages_crawled[r] < job[r].max_pages
    /\ to_visit[r] # <<>>

\* visited.insert(url)
mark_visited(vis, u) == vis \cup {u}

\* lists of at most MaxLinks distinct links of the set urls, as extract_links returns them
ListsOver(urls) ==
    UNION {{l \in [1..n -> urls] : \A i, k \in 1..n : l[i] = l[k] => i = k} : n \in 0..MaxLinks}

\* lists of links a page can hold
LinkLists == ListsOver(RawUrls)

\* the pages of a web of three URLs, written with and without a trailing slash
SmallLists == ListsOver({u \in RawUrls : u.p # "y"})

\* the pages of a web of four URLs, written without a trailing slash
WideLists == ListsOver(NormUrls)

\* what the browser fetcher returns: an error or a body
BrowserErr == [ok |-> FALSE, text |-> <<>>]
BrowserResults == {BrowserErr} \cup {[ok |-> TRUE, text |-> t] : t \in Texts}

\* crawl_loop.rs:210-241: whether the HTTP body sends the page to the browser
should_try_browser(enabled, html) ==
    /\ enabled
    /\ \/ IsBlank(html.text)
       \/ HtmlLen(html) < browser_fallback_min_html_size
       \/ html.spa

\* try_browser under the settings of the loop
try_browser(html) == should_try_browser(browser_fallback_enabled, html)

\* a fallback that takes whatever body the browser returned
final_html_any(html, tried, browser) ==
    IF tried /\ browser.ok THEN browser.text ELSE html.text

\* crawl_loop.rs:243-276: the body the runner goes on with: the browser's if the
\* browser was tried and returned a body that is not blank, else the HTTP body
final_html(html, tried, browser) ==
    IF tried /\ browser.ok /\ ~IsBlank(browser.text) THEN browser.text ELSE html.text

\* crawl_loop.rs:125-130: the shutdown check at the top of the outer loop
CheckShutdown(r) ==
    /\ pc[r] = "idle"
    /\ pc' = [pc EXCEPT ![r] = IF shutdown THEN "claim" ELSE "exited"]
    /\ UNCHANGED <<loopVars, job, to_visit, visited, pages_crawled, url, wait, ghostVars>>

\* crawl_loop.rs:134-160: take one request out of the job set and set up the BFS
ClaimRequest(r) ==
    /\ pc[r] = "claim"
    /\ \E key \in Origins :
          /\ crawl_requests[key] # NoJob
          /\ LET crawl_request == crawl_requests[key]
                 seed == normalize_url(crawl_request.url)
             IN /\ crawl_requests' = take_request(crawl_requests, key)
                /\ job' = [job EXCEPT ![r] = crawl_request]
                /\ to_visit' = [to_visit EXCEPT ![r] = <<seed>>]
                /\ visited' = [visited EXCEPT ![r] = {}]
                /\ pages_crawled' = [pages_crawled EXCEPT ![r] = 0]
                /\ g_claims' = [g_claims EXCEPT ![crawl_request.id] = @ + 1]
                /\ g_pushed' = [g_pushed EXCEPT ![r] = <<seed>>]
                /\ g_depth' = [g_depth EXCEPT ![r] = [NoDepth EXCEPT ![seed] = 0]]
    /\ pc' = [pc EXCEPT ![r] = "crawl"]
    /\ g_fetched' = [g_fetched EXCEPT ![r] = <<>>]
    /\ g_handed' = [g_handed EXCEPT ![r] = {}]
    /\ g_failed' = [g_failed EXCEPT ![r] = {}]
    /\ g_index_err' = [g_index_err EXCEPT ![r] = {}]
    /\ UNCHANGED <<shutdown, last_request_times, handles, abort_requested, run_calls,
                   weaviate_client, url, wait, g_next_id>>

\* crawl_loop.rs:147-151: nothing to claim, sleep 250 ms and start over
PollEmpty(r) ==
    /\ pc[r] = "claim"
    /\ \A key \in Origins : crawl_requests[key] = NoJob
    /\ pc' = [pc EXCEPT ![r] = "idle"]
    /\ UNCHANGED <<loopVars, job, to_visit, visited, pages_crawled, url, wait, ghostVars>>

\* the while loop ends: the job is finished and its frontier and visited set dropped
FinishCrawl(r) ==
    /\ pc[r] = "crawl"
    /\ ~LoopGuard(r)
    /\ pc' = [pc EXCEPT ![r] = "idle"]
    /\ job' = [job EXCEPT ![r] = NoJob]
    /\ to_visit' = [to_visit EXCEPT ![r] = <<>>]
    /\ visited' = [visited EXCEPT ![r] = {}]
    /\ pages_crawled' = [pages_crawled EXCEPT ![r] = 0]
    /\ g_fetched' = [g_fetched EXCEPT ![r] = <<>>]
    /\ g_pushed' = [g_pushed EXCEPT ![r] = <<>>]
    /\ g_depth' = [g_depth EXCEPT ![r] = NoDepth]
    /\ g_handed' = [g_handed EXCEPT ![r] = {}]
    /\ g_failed' = [g_failed EXCEPT ![r] = {}]
    /\ g_index_err' = [g_index_err EXCEPT ![r] = {}]
    /\ UNCHANGED <<loopVars, url, wait, g_next_id, g_claims>>

\* crawl_loop.rs:167-203: pop the next URL, skip it if visited, else pass the rate limiter
PopUrl(r) ==
    /\ pc[r] = "crawl"
    /\ LoopGuard(r)
    /\ LET u == Head(to_visit[r])
           start_base == get_base_url(job[r].url)
           last == last_request_times[start_base]
       IN /\ to_visit' = [to_visit EXCEPT ![r] = Tail(@)]
          /\ IF u \in visited[r]
             THEN UNCHANGED <<pc, url, wait, last_request_times, g_fetched>>
             ELSE /\ url' = [url EXCEPT ![r] = u]
                  /\ IF max_rps_per_base_url > 0 /\ last # -1 /\ last < MinInterval
                     THEN /\ wait' = [wait EXCEPT ![r] = MinInterval - last]
                          /\ pc' = [pc EXCEPT ![r] = "sleep"]
                          /\ UNCHANGED <<last_request_times, g_fetched>>
                     ELSE /\ last_request_times' =
                               IF max_rps_per_base_url > 0
                               THEN [last_request_times EXCEPT ![start_base] = 0]
                               ELSE last_request_times
                          /\ pc' = [pc EXCEPT ![r] = "fetch"]
                          /\ g_fetched' = [g_fetched EXCEPT ![r] = Append(@, u)]
                          /\ UNCHANGED wait
    /\ UNCHANGED <<crawl_requests, shutdown, handles, abort_requested, run_calls,
                   weaviate_client, job, visited, pages_crawled, g_next_id, g_claims,
                   g_pushed, g_depth, g_handed, g_failed, g_index_err>>

\* crawl_loop.rs:195-207: the sleep is over, record the request time and fetch
Wake(r) ==
    /\ pc[r] = "sleep"
    /\ wait[r] = 0
    /\ last_request_times' = [last_request_times EXCEPT ![get_base_url(job[r].url)] = 0]
    /\ pc' = [pc EXCEPT ![r] = "fetch"]
    /\ g_fetched' = [g_fetched EXCEPT ![r] = Append(@, url[r])]
    /\ UNCHANGED <<crawl_requests, shutdown, handles, abort_requested, run_calls,
                   weaviate_client, job, to_visit, visited, pages_crawled, url, wait,
                   g_next_id, g_claims, g_pushed, g_depth, g_handed, g_failed, g_index_err>>

\* crawl_loop.rs:333-341: the fetch failed
FetchErr(r) ==
    /\ pc[r] = "fetch"
    /\ visited' = [visited EXCEPT ![r] = mark_visited(@, url[r])]
    /\ pc' = [pc EXCEPT ![r] = "crawl"]
    /\ url' = [url EXCEPT ![r] = NoUrl]
    /\ g_failed' = [g_failed EXCEPT ![r] = @ \cup {url[r]}]
    /\ UNCHANGED <<loopVars, job, to_visit, pages_crawled, wait, g_next_id, g_claims,
                   g_fetched, g_pushed, g_depth, g_handed, g_index_err>>

\* crawl_loop.rs:208-306: the fetch returned html; browser is the browser fetcher's
\* answer, used when the fallback is tried
FetchOk(r, html, browser) ==
    /\ pc[r] = "fetch"
    /\ LET final == final_html(html, try_browser(html), browser)
       IN /\ pages_crawled' = [pages_crawled EXCEPT ![r] = @ + 1]
          /\ visited' = [visited EXCEPT ![r] = mark_visited(@, url[r])]
          /\ IF IsBlank(final)
             THEN /\ pc' = [pc EXCEPT ![r] = "crawl"]
                  /\ url' = [url EXCEPT ![r] = NoUrl]
                  /\ UNCHANGED g_handed
             ELSE /\ pc' = [pc EXCEPT ![r] = "index"]
                  /\ g_handed' = IF weaviate_client
                                 THEN [g_handed EXCEPT ![r] =
                                          @ \cup {[url |-> url[r], body |-> Hash(final)]}]
                                 ELSE g_handed
                  /\ UNCHANGED url
    /\ UNCHANGED <<loopVars, job, to_visit, wait, g_next_id, g_claims, g_fetched,
                   g_pushed, g_depth, g_failed, g_index_err>>

\* an indexing call whose error goes to its caller
index_page_with_client_result(index_ok) == IF index_ok THEN "returned" ELSE "error"

\* weaviate.rs:214-222: index_page_safe_with_client logs an error of
\* index_page_with_client and returns
index_page_safe_with_client(index_ok) == "returned"

\* crawl_loop.rs:291-341: the indexer returned (index_ok: without an error), or there
\* is no client and nothing was indexed; the links of the page are queued.  A call
\* that does not return ends the task.
IndexDone(r, links, index_ok) ==
    /\ pc[r] = "index"
    /\ index_ok \/ weaviate_client
    /\ g_index_err' = IF index_ok THEN g_index_err
                      ELSE [g_index_err EXCEPT ![r] = @ \cup {url[r]}]
    /\ IF ~weaviate_client \/ index_page_safe_with_client(index_ok) = "returned"
       THEN /\ LET new == Accepted(to_visit[r], visited[r], links, job[r])
               IN /\ to_visit' = [to_visit EXCEPT ![r] = PushLinks(@, visited[r], links, job[r])]
                  /\ g_pushed' = [g_pushed EXCEPT ![r] = @ \o new]
                  /\ g_depth' = [g_depth EXCEPT ![r] = [u \in NormUrls |->
                         IF InSeq(u, new) /\ @[u] = -1 THEN @[url[r]] + 1 ELSE @[u]]]
            /\ pc' = [pc EXCEPT ![r] = "crawl"]
       ELSE /\ pc' = [pc EXCEPT ![r] = "exited"]
            /\ UNCHANGED <<to_visit, g_pushed, g_depth>>
    /\ url' = [url EXCEPT ![r] = NoUrl]
    /\ UNCHANGED <<loopVars, job, visited, pages_crawled, wait, g_next_id, g_claims,
                   g_fetched, g_handed, g_failed>>

\* one step of runner r; lists are the link lists its pages can hold
Runner(r, lists) ==
    \/ CheckShutdown(r)
    \/ ClaimRequest(r)
    \/ PollEmpty(r)
    \/ FinishCrawl(r)
    \/ PopUrl(r)
    \/ Wake(r)
    \/ FetchErr(r)
    \/ \E html \in Htmls :
          \E browser \in IF try_browser(html) THEN BrowserResults ELSE {BrowserErr} :
             FetchOk(r, html, browser)
    \/ \E links \in lists, index_ok \in BOOLEAN : IndexDone(r, links, index_ok)
    \/ Cancel(r)

\* one step of the crawl loop: requests are enqueued from reqs, the runners of rs are
\* scheduled
LoopNext(rs, reqs, lists) ==
    /\ \/ set_weaviate_client
       \/ \E crawl_request \in reqs : add_crawl_request(crawl_request)
       \/ run
       \/ stop
       \/ Tick
       \/ \E r \in rs : Runner(r, lists)
    /\ UNCHANGED <<dedupVars, crawlVars, auxVars>>

(***************************************************************************)
(* Spec is the whole crawl loop: every runner, pages with any links.  Its  *)
(* state space is the product of the runners' crawls, so the claims are    *)
(* checked under two restrictions of it, whose behaviours are behaviours   *)
(* of Spec:                                                                *)
(*   SpecJob   only runner 1 is scheduled (the crawl of a job is local to  *)
(*             its runner), pages hold any links of a web of three URLs    *)
(*   SpecPool  every runner is scheduled, pages hold no links and every    *)
(*             request is for one page of the seed's domain (every job is  *)
(*             its seed page)                                              *)
(*   SpecBfs   only runner 1 is scheduled, jobs cross domains and ask for  *)
(*             MaxPages pages of a web of four URLs, so that a page's      *)
(*             links arrive while the frontier still holds others          *)
(***************************************************************************)
Next == LoopNext(Runners, Requests, LinkLists)

Spec == Init /\ [][Next]_vars

JobNext == LoopNext({1}, Requests, SmallLists)

SpecJob == Init /\ [][JobNext]_vars

\* SpecJob with a scheduler that lets time pass and lets runner 1 take a step
\* whenever it can: every await of the task returns
SpecJobFair ==
    /\ Init /\ [][JobNext]_vars
    /\ WF_vars(Tick /\ UNCHANGED <<dedupVars, crawlVars, auxVars>>)
    /\ WF_vars(Runner(1, SmallLists) /\ UNCHANGED <<dedupVars, crawlVars, auxVars>>)

PoolNext == LoopNext(Runners, {q \in Requests : q.max_pages = 1 /\ q.same_domain}, {<<>>})

SpecPool == Init /\ [][PoolNext]_vars

BfsNext == LoopNext({1}, {q \in Requests : q.max_pages = MaxPages /\ ~q.same_domain}, WideLists)

SpecBfs == Init /\ [][BfsNext]_vars

\* the runners on jobs of one site: requests for the seed of origin a, which can be
\* added again once a runner has taken the one before, and pages with one link
RateRequests == {q \in Requests : q.url.o = "a" /\ q.max_pages = MaxPages /\ q.same_domain}
RateLists == {<<[o |-> "a", p |-> "x", s |-> FALSE]>>}
RateNext == LoopNext(Runners, RateRequests, RateLists)

SpecRate == Init /\ [][RateNext]_vars

(***************************************************************************)
(* ContentDedup (dedup.rs): tasks calling is_duplicate on one shared       *)
(* ContentDedup.  seen_hashes is a tokio RwLock: any number of readers or  *)
(* one writer.                                                             *)
(*   idle   not in a call                                                  *)
(*   read   hash computed, waiting for the read lock                       *)
(*   check  holding the read lock                                          *)
(*   write  not found under the read lock, waiting for the write lock      *)
(*   insert holding the write lock                                         *)
(***************************************************************************)
Returned(h, result) ==
    g_returned' = [g_returned EXCEPT ![h] =
        IF result THEN [@ EXCEPT !.t = @ + 1] ELSE [@ EXCEPT !.f = @ + 1]]

\* the call of c returns result
Returns(c, result) ==
    /\ d_ret' = [d_ret EXCEPT ![c] = IF result THEN "true" ELSE "false"]
    /\ g_finished' = g_finished \cup {d_content[c]}
    /\ g_false' = IF result THEN g_false ELSE g_false + 1
    /\ UNCHANGED <<g_submitted, g_before, g_other>>

\* dedup.rs:40-41: a task calls is_duplicate(content)
CallIsDuplicate(c, content) ==
    /\ d_pc[c] = "idle"
    /\ g_calls < MaxCalls
    /\ g_calls' = g_calls + 1
    /\ d_content' = [d_content EXCEPT ![c] = content]
    /\ d_pc' = [d_pc EXCEPT ![c] = "read"]
    /\ d_ret' = [d_ret EXCEPT ![c] = "none"]
    /\ g_submitted' = g_submitted \cup {content}
    /\ g_before' = [g_before EXCEPT ![c] = g_finished]
    /\ g_other' = [x \in Callers |->
                      IF x = c THEN g_submitted
                      ELSE IF d_pc[x] # "idle" THEN g_other[x] \cup {content}
                      ELSE g_other[x]]
    /\ UNCHANGED <<seen_hashes, d_readers, d_writer, g_returned, g_finished, g_false>>

\* dedup.rs:45: seen_hashes.read().await
AcquireRead(c) ==
    /\ d_pc[c] = "read"
    /\ d_writer = 0
    /\ d_readers' = d_readers \cup {c}
    /\ d_pc' = [d_pc EXCEPT ![c] = "check"]
    /\ UNCHANGED <<seen_hashes, d_writer, d_content, g_calls, g_returned, dedupHist>>

\* dedup.rs:46-49: return true if the hash is there, release the read lock
ReadCheck(c) ==
    /\ d_pc[c] = "check"
    /\ d_readers' = d_readers \ {c}
    /\ IF Hash(d_content[c]) \in seen_hashes
       THEN /\ d_pc' = [d_pc EXCEPT ![c] = "idle"]
            /\ Returned(Hash(d_content[c]), TRUE)
            /\ Returns(c, TRUE)
       ELSE /\ d_pc' = [d_pc EXCEPT ![c] = "write"]
            /\ UNCHANGED <<g_returned, dedupHist>>
    /\ UNCHANGED <<seen_hashes, d_writer, d_content, g_calls>>

\* dedup.rs:53: seen_hashes.write().await
AcquireWrite(c) ==
    /\ d_pc[c] = "write"
    /\ d_writer = 0
    /\ d_readers = {}
    /\ d_writer' = c
    /\ d_pc' = [d_pc EXCEPT ![c] = "insert"]
    /\ UNCHANGED <<seen_hashes, d_readers, d_content, g_calls, g_returned, dedupHist>>

\* WriteCheck without the re-check of dedup.rs:55-57
WriteCheck_no_recheck(c) ==
    /\ d_pc[c] = "insert"
    /\ d_writer' = 0
    /\ d_pc' = [d_pc EXCEPT ![c] = "idle"]
    /\ seen_hashes' = seen_hashes \cup {Hash(d_content[c])}
    /\ Returned(Hash(d_content[c]), FALSE)
    /\ Returns(c, FALSE)
    /\ UNCHANGED <<d_readers, d_content, g_calls>>

\* dedup.rs:55-61: check again under the write lock, insert if still absent
WriteCheck(c) ==
    /\ d_pc[c] = "insert"
    /\ d_writer' = 0
    /\ d_pc' = [d_pc EXCEPT ![c] = "idle"]
    /\ IF Hash(d_content[c]) \in seen_hashes
       THEN /\ g_returned' = [g_returned EXCEPT ![Hash(d_content[c])] =
                   [@ EXCEPT !.t = @ + 1, !.w = @ + 1]]
            /\ Returns(c, TRUE)
            /\ UNCHANGED seen_hashes
       ELSE /\ seen_hashes' = seen_hashes \cup {Hash(d_content[c])}
            /\ Returned(Hash(d_content[c]), FALSE)
            /\ Returns(c, FALSE)
    /\ UNCHANGED <<d_readers, d_content, g_calls>>

is_duplicate(c) ==
    \/ \E content \in Texts : CallIsDuplicate(c, content)
    \/ AcquireRead(c)
    \/ ReadCheck(c)
    \/ AcquireWrite(c)
    \/ WriteCheck(c)

DedupNext ==
    /\ \E c \in Callers : is_duplicate(c)
    /\ UNCHANGED <<loopVars, runnerVars, ghostVars, crawlVars, auxVars>>

SpecDedup == Init /\ [][DedupNext]_vars

(***************************************************************************)
(* Claims about ContentDedup, checked under SpecDedup.                     *)
(***************************************************************************)
\* C3: of the calls of is_duplicate whose bodies normalize to the same hash, however
\* their read-lock checks and write-lock re-checks interleave, at most one returns
\* false, and it is exactly the one that inserted the hash: a call returns true only
\* once the hash is in the set, and the hash is in the set iff one call returned false.
C3_ExactlyOneFalse ==
    \A h \in Hashes :
        /\ g_returned[h].f <= 1
        /\ (g_returned[h].f = 1) <=> (h \in seen_hashes)
        /\ g_returned[h].t > 0 => g_returned[h].f = 1

\* two callers passed the read-lock check for the same absent hash with different raw
\* bodies; one inserted and returned false, the other returned true from the re-check
C3_Witness ==
    \E h \in Hashes :
        /\ g_returned[h].f = 1
        /\ g_returned[h].w >= 1
        /\ d_content[1] # d_content[2]
        /\ Hash(d_content[1]) = h
        /\ Hash(d_content[2]) = h
        /\ \A c \in Callers : d_pc[c] = "idle"

(***************************************************************************)
(* The POST /crawl handler of main.rs: one request is crawled level by     *)
(* level before the response is sent.  URLs are the strings the handler    *)
(* compares: a record is the URL of host o and path p, written with a      *)
(* trailing slash when s.                                                  *)
(***************************************************************************)
IpHosts == {"10.0.0.1", "10.0.0.2"}

\* the links a page can hold, in the order of links.sort() (main.rs:270)
SortedLinks ==
    << [o |-> "10.0.0.1", p |-> "", s |-> TRUE],
       [o |-> "10.0.0.2", p |-> "", s |-> TRUE],
       [o |-> "a.test", p |-> "", s |-> TRUE],
       [o |-> "a.test", p |-> "x", s |-> FALSE],
       [o |-> "a.test", p |-> "x", s |-> TRUE] >>

\* the URLs a request can name: a root is written with or without its slash
CrawlSeeds ==
    { [o |-> "a.test", p |-> "", s |-> FALSE],
      [o |-> "a.test", p |-> "", s |-> TRUE],
      [o |-> "10.0.0.1", p |-> "", s |-> TRUE] }

CrawlRequests == [url : CrawlSeeds, depth : 0..MaxLevels, max_pages : 1..MaxPages]

\* the sets of links a fetched page can hold
PageLinks ==
    {S \in SUBSET {SortedLinks[i] : i \in 1..Len(SortedLinks)} : Cardinality(S) <= MaxLinks}

\* main.rs:209-273: the links of a page, sorted, without duplicates
extract_links(S) == SelectSeq(SortedLinks, LAMBDA u : u \in S)

\* Url::domain: the host if it is a domain name, None if it is an IP address
domain(u) == IF u.o \in IpHosts THEN "None" ELSE u.o

\* main.rs:275-281
is_same_domain(base_url, target_url) == domain(base_url) = domain(target_url)

\* main.rs:65-93: a request arrives; ensure_schema fails or the crawl starts
CrawlStart(request, schema_ok) ==
    /\ h_pc \in {"ready", "responded", "error"}
    /\ req' = request
    /\ h_pc' = IF schema_ok THEN "level" ELSE "error"
    /\ urls_to_crawl' = IF schema_ok THEN <<request.url>> ELSE <<>>
    /\ crawled_urls' = {}
    /\ all_urls' = <<>>
    /\ pages_indexed' = 0
    /\ current_depth' = 0
    /\ h_next' = 1
    /\ next_level_urls' = <<>>
    /\ g_requested' = <<>>

\* main.rs:95-100: the head of the for loop over the levels
LevelStart ==
    /\ h_pc = "level"
    /\ current_depth < req.depth
    /\ urls_to_crawl # <<>>
    /\ next_level_urls' = <<>>
    /\ h_next' = 1
    /\ h_pc' = "url"
    /\ UNCHANGED <<req, current_depth, urls_to_crawl, crawled_urls, all_urls, pages_indexed,
                   g_requested>>

\* main.rs:103-106: a URL of the level that is in crawled_urls is passed over
SkipCrawled ==
    /\ h_pc = "url"
    /\ h_next <= Len(urls_to_crawl)
    /\ urls_to_crawl[h_next] \in crawled_urls
    /\ h_next' = h_next + 1
    /\ UNCHANGED <<h_pc, req, current_depth, urls_to_crawl, next_level_urls, crawled_urls,
                   all_urls, pages_indexed, g_requested>>

\* main.rs:111-152: fetch_page returned the page, whose links are the set S
CrawlFetchOk(S) ==
    /\ h_pc = "url"
    /\ h_next <= Len(urls_to_crawl)
    /\ urls_to_crawl[h_next] \notin crawled_urls
    /\ LET u == urls_to_crawl[h_next]
           links == IF current_depth + 1 < req.depth THEN extract_links(S) ELSE <<>>
       IN /\ next_level_urls' = next_level_urls \o
                 SelectSeq(links, LAMBDA link :
                     link \notin crawled_urls /\ is_same_domain(req.url, link))
          /\ pages_indexed' = pages_indexed + 1
          /\ crawled_urls' = crawled_urls \cup {u}
          /\ all_urls' = Append(all_urls, u)
          /\ g_requested' = Append(g_requested, u)
    /\ h_next' = h_next + 1
    /\ UNCHANGED <<h_pc, req, current_depth, urls_to_crawl>>

\* main.rs:153-155: fetch_page returned an error, which is logged
CrawlFetchErr ==
    /\ h_pc = "url"
    /\ h_next <= Len(urls_to_crawl)
    /\ urls_to_crawl[h_next] \notin crawled_urls
    /\ g_requested' = Append(g_requested, urls_to_crawl[h_next])
    /\ h_next' = h_next + 1
    /\ UNCHANGED <<h_pc, req, current_depth, urls_to_crawl, next_level_urls, crawled_urls,
                   all_urls, pages_indexed>>

\* main.rs:162-164: the level is done, the next one is what it collected
LevelEnd ==
    /\ h_pc = "url"
    /\ h_next > Len(urls_to_crawl)
    /\ urls_to_crawl' = next_level_urls
    /\ current_depth' = current_depth + 1
    /\ h_pc' = "level"
    /\ UNCHANGED <<req, h_next, next_level_urls, crawled_urls, all_urls, pages_indexed,
                   g_requested>>

\* main.rs:95-98, 166-182: the loop is over, the response is sent
Respond ==
    /\ h_pc = "level"
    /\ (current_depth >= req.depth \/ urls_to_crawl = <<>>)
    /\ h_pc' = "responded"
    /\ UNCHANGED <<req, current_depth, urls_to_crawl, h_next, next_level_urls, crawled_urls,
                   all_urls, pages_indexed, g_requested>>

crawl ==
    \/ \E request \in CrawlRequests : \E schema_ok \in BOOLEAN : CrawlStart(request, schema_ok)
    \/ LevelStart
    \/ SkipCrawled
    \/ \E S \in PageLinks : CrawlFetchOk(S)
    \/ CrawlFetchErr
    \/ LevelEnd
    \/ Respond

CrawlNext == crawl /\ UNCHANGED <<loopVars, runnerVars, ghostVars, dedupVars, auxVars>>

SpecCrawl == Init /\ [][CrawlNext]_vars

(***************************************************************************)
(* The browser fetcher (web_visitor_browser.rs): tasks calling             *)
(* BrowserPool::fetch_page on the one shared pool.                         *)
(*   idle                 not in fetch_page                                *)
(*   get                  in BrowserPool::get(), awaiting get_or_init      *)
(*   initialize           running the initializer (Browser::launch)        *)
(*   panicked             the task ended in the expect of the initializer  *)
(*   lock                 awaiting self._lock.lock()                       *)
(*   new_page, goto, wait_for_navigation, content                          *)
(*                        suspended in that call to the browser            *)
(***************************************************************************)
BrowserIo == <<"new_page", "goto", "wait_for_navigation", "content">>

\* the URLs the browser is asked for
BrowserUrls == {u \in NormUrls : u.p # "y"}

\* web_visitor_browser.rs:142-146: WebVisitorBrowser::fetch_page asks for the pool
BrowserCall(c, u) ==
    /\ b_pc[c] = "idle"
    /\ b_pc' = [b_pc EXCEPT ![c] = "get"]
    /\ b_url' = [b_url EXCEPT ![c] = u]
    /\ b_result' = [b_result EXCEPT ![c] = NoResult]
    /\ b_pool' = [b_pool EXCEPT ![c] = 0]
    /\ UNCHANGED <<b_lock, BROWSER_POOL, b_init, g_inits>>

\* an initializer that starts whenever the value is unset
may_initialize_unguarded(cell, holder) == cell = 0

\* web_visitor_browser.rs:27, 89-91: OnceCell::get_or_init runs the initializer
\* only while the cell is unset and no other task is running it
may_initialize(cell, holder) == cell = 0 /\ holder = 0

\* web_visitor_browser.rs:88-99: get_or_init finds the cell set and get() returns
\* a clone of the Arc
BrowserGet(c) ==
    /\ b_pc[c] = "get"
    /\ BROWSER_POOL # 0
    /\ b_pool' = [b_pool EXCEPT ![c] = BROWSER_POOL]
    /\ b_pc' = [b_pc EXCEPT ![c] = "lock"]
    /\ UNCHANGED <<b_lock, b_url, b_result, BROWSER_POOL, b_init, g_inits>>

\* web_visitor_browser.rs:90-96: get_or_init starts the initializer
BrowserInitStart(c) ==
    /\ b_pc[c] = "get"
    /\ may_initialize(BROWSER_POOL, b_init)
    /\ b_init' = c
    /\ b_pc' = [b_pc EXCEPT ![c] = "initialize"]
    /\ UNCHANGED <<b_lock, b_url, b_result, BROWSER_POOL, b_pool, g_inits>>

\* web_visitor_browser.rs:38-85, 90-99: initialize() returned a new BrowserPool,
\* the cell is set to it and get() returns it
BrowserInitOk(c) ==
    /\ b_pc[c] = "initialize"
    /\ g_inits' = g_inits + 1
    /\ BROWSER_POOL' = g_inits + 1
    /\ b_pool' = [b_pool EXCEPT ![c] = g_inits + 1]
    /\ b_init' = IF b_init = c THEN 0 ELSE b_init
    /\ b_pc' = [b_pc EXCEPT ![c] = "lock"]
    /\ UNCHANGED <<b_lock, b_url, b_result>>

\* web_visitor_browser.rs:54-60, 92-95: initialize() returned Err and expect
\* panics: the task ends and the cell stays unset
BrowserInitPanic(c) ==
    /\ b_pc[c] = "initialize"
    /\ b_init' = IF b_init = c THEN 0 ELSE b_init
    /\ b_pc' = [b_pc EXCEPT ![c] = "panicked"]
    /\ UNCHANGED <<b_lock, b_url, b_result, BROWSER_POOL, b_pool, g_inits>>

\* web_visitor_browser.rs:107-113: the guard is acquired and new_page called
BrowserLock(c) ==
    /\ b_pc[c] = "lock"
    /\ b_lock = 0
    /\ b_lock' = c
    /\ b_pc' = [b_pc EXCEPT ![c] = BrowserIo[1]]
    /\ UNCHANGED <<b_url, b_result, BROWSER_POOL, b_init, b_pool, g_inits>>

\* web_visitor_browser.rs:110-127: a call to the browser returned Ok and the next
\* one is made
BrowserStep(c) ==
    /\ \E i \in 1..(Len(BrowserIo) - 1) :
          /\ b_pc[c] = BrowserIo[i]
          /\ b_pc' = [b_pc EXCEPT ![c] = BrowserIo[i + 1]]
    /\ UNCHANGED <<b_lock, b_url, b_result, BROWSER_POOL, b_init, b_pool, g_inits>>

\* web_visitor_browser.rs:114-127: a call to the browser returned an error, which `?`
\* returns; the guard is dropped
BrowserFail(c) ==
    /\ \E i \in 1..Len(BrowserIo) : b_pc[c] = BrowserIo[i]
    /\ b_pc' = [b_pc EXCEPT ![c] = "idle"]
    /\ b_result' = [b_result EXCEPT ![c] = BrowserErr]
    /\ b_lock' = IF b_lock = c THEN 0 ELSE b_lock
    /\ UNCHANGED <<b_url, BROWSER_POOL, b_init, b_pool, g_inits>>

\* web_visitor_browser.rs:124-130: page.content() returned the html; the guard is dropped
BrowserReturn(c, t) ==
    /\ b_pc[c] = BrowserIo[Len(BrowserIo)]
    /\ b_pc' = [b_pc EXCEPT ![c] = "idle"]
    /\ b_result' = [b_result EXCEPT ![c] = [ok |-> TRUE, text |-> t]]
    /\ b_lock' = IF b_lock = c THEN 0 ELSE b_lock
    /\ UNCHANGED <<b_url, BROWSER_POOL, b_init, b_pool, g_inits>>

BrowserNext ==
    /\ \E c \in Callers :
          \/ \E u \in BrowserUrls : BrowserCall(c, u)
          \/ BrowserGet(c)
          \/ BrowserInitStart(c)
          \/ BrowserInitOk(c)
          \/ BrowserInitPanic(c)
          \/ BrowserLock(c)
          \/ BrowserStep(c)
          \/ BrowserFail(c)
          \/ \E t \in Texts : BrowserReturn(c, t)
    /\ UNCHANGED <<coreVars, fetchVars, indexVars, chunkVars, robotsVars, rankVars, searchVars, stateVars, taskVars, boostVars, wordVars, linkVars, blockVars, plagiatVars>>

SpecBrowser == Init /\ [][BrowserNext]_vars

(***************************************************************************)
(* The browser fallback of one fetch (crawl_loop.rs:207-276), under any    *)
(* setting of browser_fallback_enabled.                                    *)
(***************************************************************************)
\* crawl_loop.rs:172-208: web_visitor.fetch_page returned a body, under any
\* settings and any behaviour of the browser
FetchPage(enabled, html, browser) ==
    /\ f_html = NoHtml
    /\ f_enabled' = enabled
    /\ f_html' = html
    /\ f_browser' = browser
    /\ UNCHANGED <<f_calls, f_final>>

\* crawl_loop.rs:208-276: the Ok arm of the fetch up to the final body
HandleFetched ==
    /\ f_html # NoHtml
    /\ f_final = NoResult
    /\ LET tried == should_try_browser(f_enabled, f_html)
       IN /\ f_calls' = IF tried THEN f_calls + 1 ELSE f_calls
          /\ f_final' = [ok |-> TRUE, text |-> final_html(f_html, tried, f_browser)]
    /\ UNCHANGED <<f_enabled, f_html, f_browser>>

FetchNext ==
    /\ \/ \E enabled \in BOOLEAN, html \in HtmlsPadded({0, 1021, 1022, 1023, 2046}),
             browser \in {BrowserErr} \cup {[ok |-> TRUE, text |-> t] : t \in Texts} :
               FetchPage(enabled, html, browser)
       \/ HandleFetched
    /\ UNCHANGED <<coreVars, browserVars, indexVars, chunkVars, robotsVars, rankVars, searchVars, stateVars, taskVars, boostVars, wordVars, linkVars, blockVars, plagiatVars>>

SpecFetch == Init /\ [][FetchNext]_vars

(***************************************************************************)
(* Indexing a page: index_page_with_client of weaviate.rs (create, update  *)
(* on "already exists") and of index.rs (delete, then create).  A call of  *)
(* the store fails when the store cannot be reached (up = FALSE); create   *)
(* fails on an ID that exists, delete and update on one that does not.     *)
(***************************************************************************)
\* weaviate.rs:118-127, index.rs:438-447: the call and its chunks
IndexStart(impl, page_url, page_chunks) ==
    /\ w_pc = "idle"
    /\ w_impl' = impl
    /\ w_url' = page_url
    /\ w_chunks' = page_chunks
    /\ w_i' = 0
    /\ w_pc' = IF impl = "index" THEN "delete" ELSE "create"
    /\ UNCHANGED <<store, g_n, g_ids>>

\* the loop goes to the next chunk, or the call returns Ok
NextChunk ==
    IF w_i + 1 < Len(w_chunks)
    THEN /\ w_i' = w_i + 1
         /\ w_pc' = IF w_impl = "index" THEN "delete" ELSE "create"
    ELSE /\ w_i' = w_i
         /\ w_pc' = "ok"

\* a delete that removes every object of the URL of the ID
deleted_with_url(object_id) == {id \in ObjectIds : id[1] = object_id[1]}

\* index.rs:450-453: objects.delete(class, &object_id) removes the object of that ID
deleted(object_id) == {object_id}

\* index.rs:448-461: delete the object of the chunk, whatever the outcome
DeleteChunk(up) ==
    /\ w_pc = "delete"
    /\ LET object_id == generate_uuid_from_url_and_chunk(w_url, w_i)
       IN store' = IF up THEN [id \in ObjectIds |->
                                 IF id \in deleted(object_id) THEN NoObject ELSE store[id]]
                         ELSE store
    /\ w_pc' = "create"
    /\ UNCHANGED <<w_impl, w_url, w_chunks, w_i, g_n, g_ids>>

\* weaviate.rs:136-157, 181-185, index.rs:463-486: create the object
CreateChunk(up) ==
    /\ w_pc = "create"
    /\ LET object_id == generate_uuid_from_url_and_chunk(w_url, w_i)
       IN IF up /\ store[object_id] = NoObject
          THEN /\ store' = [store EXCEPT ![object_id] = w_chunks[w_i + 1]]
               /\ NextChunk
          ELSE /\ store' = store
               /\ w_i' = w_i
               /\ w_pc' = IF up /\ w_impl = "weaviate" THEN "update" ELSE "err"
    /\ UNCHANGED <<w_impl, w_url, w_chunks, g_n, g_ids>>

\* weaviate.rs:160-180: the object exists already: update it
UpdateChunk(up) ==
    /\ w_pc = "update"
    /\ LET object_id == generate_uuid_from_url_and_chunk(w_url, w_i)
       IN IF up /\ store[object_id] # NoObject
          THEN /\ store' = [store EXCEPT ![object_id] = w_chunks[w_i + 1]]
               /\ NextChunk
          ELSE /\ store' = store
               /\ w_i' = w_i
               /\ w_pc' = "err"
    /\ UNCHANGED <<w_impl, w_url, w_chunks, g_n, g_ids>>

\* weaviate.rs:178, 183, 193, index.rs:484, 494: the call returns
IndexReturn ==
    /\ w_pc \in {"ok", "err"}
    /\ g_n' = [g_n EXCEPT ![w_url] = IF w_pc = "ok" THEN Len(w_chunks) ELSE 0]
    /\ g_ids' = [g_ids EXCEPT ![w_url] = IdsOf(w_url)]
    /\ w_pc' = "idle"
    /\ UNCHANGED <<store, w_impl, w_url, w_chunks, w_i>>

IndexNext ==
    /\ \/ \E impl \in {"weaviate", "index"}, page_url \in IndexedUrls, page_chunks \in ChunkLists :
               IndexStart(impl, page_url, page_chunks)
       \/ \E up \in BOOLEAN : DeleteChunk(up)
       \/ \E up \in BOOLEAN : CreateChunk(up)
       \/ \E up \in BOOLEAN : UpdateChunk(up)
       \/ IndexReturn
    /\ UNCHANGED <<coreVars, browserVars, fetchVars, chunkVars, robotsVars, rankVars, searchVars, stateVars, taskVars, boostVars, wordVars, linkVars, blockVars, plagiatVars>>

SpecIndex == Init /\ [][IndexNext]_vars

(***************************************************************************)
(* Chunking a page (index.rs).  A content block is the sequence of the     *)
(* word counts of its sentences; a chunk is written as the number of words *)
(* and of sentences of its text, with the url, title and description of    *)
(* the page.                                                               *)
(***************************************************************************)
\* index.rs:18-21: (word_count as f64 * 1.33) as usize
estimate_tokens(word_count) == (word_count * 133) \div 100

\* the content blocks of the pages: small ones, ones just below MAX_CHUNK_TOKENS,
\* and ones above it of one, two and three sentences
Blocks == {<<1>>, <<3>>, <<100>>, <<522>>, <<600>>, <<300, 300>>, <<3, 3, 522>>}

RECURSIVE SumSeq(_)
SumSeq(q) == IF q = <<>> THEN 0 ELSE Head(q) + SumSeq(Tail(q))

\* WebPageChunk::new for a text of the given size
NewChunk(words, sentences) ==
    [words |-> words, sentences |-> sentences, url |-> k_page.url,
     title |-> k_page.title, description |-> k_page.description]

\* index.rs:176-213: the chunks of a block that alone exceeds MAX_CHUNK_TOKENS;
\* sw, sn and st are the words, sentences and sentence_tokens of sentence_chunk
RECURSIVE SentenceChunks(_, _, _, _, _)
SentenceChunks(sentences, i, sw, sn, st) ==
    IF i > Len(sentences)
    THEN IF sn > 0 THEN <<NewChunk(sw, sn)>> ELSE <<>>
    ELSE LET sentence_tokens_count == estimate_tokens(sentences[i])
         IN IF st + sentence_tokens_count > MAX_CHUNK_TOKENS /\ sn > 0
            THEN <<NewChunk(sw, sn)>>
                 \o SentenceChunks(sentences, i + 1, sentences[i], 1, sentence_tokens_count)
            ELSE SentenceChunks(sentences, i + 1, sw + sentences[i], sn + 1,
                                st + sentence_tokens_count)

\* index.rs:300-315: the document is parsed, its title, blocks and description taken
ExtractStart(page) ==
    /\ k_pc = "idle"
    /\ k_pc' = "chunking"
    /\ k_page' = page
    /\ UNCHANGED <<k_nblocks, current_words, current_sentences, current_tokens,
                   chunks, k_result>>

\* index.rs:156-259: one turn of the loop over the blocks
ChunkBlock(block) ==
    /\ k_pc = "chunking"
    /\ k_nblocks < MaxBlocks
    /\ k_nblocks' = k_nblocks + 1
    /\ LET block_tokens == estimate_tokens(SumSeq(block))
           current == NewChunk(current_words, current_sentences)
       IN IF block_tokens > MAX_CHUNK_TOKENS
          THEN /\ chunks' = chunks
                            \o (IF current_words > 0 THEN <<current>> ELSE <<>>)
                            \o SentenceChunks(block, 1, 0, 0, 0)
               /\ current_words' = 0
               /\ current_sentences' = 0
               /\ current_tokens' = IF current_words > 0 THEN 0 ELSE current_tokens
          ELSE LET flush == /\ current_tokens + block_tokens > MAX_CHUNK_TOKENS
                            /\ current_words > 0
                            /\ current_tokens > 0
                   words == (IF flush THEN 0 ELSE current_words) + SumSeq(block)
                   sentences == (IF flush THEN 0 ELSE current_sentences) + Len(block)
                   tokens == (IF flush THEN 0 ELSE current_tokens) + block_tokens
                   save == tokens >= MIN_CHUNK_TOKENS
               IN /\ chunks' = chunks
                               \o (IF flush THEN <<current>> ELSE <<>>)
                               \o (IF save THEN <<NewChunk(words, sentences)>> ELSE <<>>)
                  /\ current_words' = IF save THEN 0 ELSE words
                  /\ current_sentences' = IF save THEN 0 ELSE sentences
                  /\ current_tokens' = IF save THEN 0 ELSE tokens
    /\ UNCHANGED <<k_pc, k_page, k_result>>

\* a vector that is returned as it is
or_minimal_never(v) == v

\* index.rs:318-331: a vector with no chunk is replaced by one minimal chunk
or_minimal(v) == IF v = <<>> THEN <<NewChunk(0, 0)>> ELSE v

\* index.rs:262-274, 316-331: the remaining content is saved and the chunks are returned
ExtractReturn ==
    /\ k_pc = "chunking"
    /\ k_pc' = "done"
    /\ LET all == chunks \o (IF current_words > 0
                              THEN <<NewChunk(current_words, current_sentences)>> ELSE <<>>)
       IN /\ chunks' = all
          /\ k_result' = or_minimal(all)
    /\ UNCHANGED <<k_page, k_nblocks, current_words, current_sentences, current_tokens>>

ChunkNext ==
    /\ \/ \E page \in Pages : ExtractStart(page)
       \/ \E block \in Blocks : ChunkBlock(block)
       \/ ExtractReturn
    /\ UNCHANGED <<coreVars, browserVars, fetchVars, indexVars, robotsVars, rankVars, searchVars, stateVars, taskVars, boostVars, wordVars, linkVars, blockVars, plagiatVars>>

SpecChunk == Init /\ [][ChunkNext]_vars

(***************************************************************************)
(* RobotsCache::is_allowed (robots.rs:111-149), called by several tasks.   *)
(***************************************************************************)
\* robots.rs:111-123: the origin of the url, or true for a url without one
RobotsCall(c, u) ==
    /\ r_pc[c] = "idle"
    /\ r_url' = [r_url EXCEPT ![c] = u]
    /\ r_response' = [r_response EXCEPT ![c] = NoResponse]
    /\ r_result' = [r_result EXCEPT ![c] = NoEntry]
    /\ IF u.valid
       THEN /\ r_pc' = [r_pc EXCEPT ![c] = "read"]
            /\ r_ret' = [r_ret EXCEPT ![c] = "none"]
       ELSE /\ r_pc' = [r_pc EXCEPT ![c] = "done"]
            /\ r_ret' = [r_ret EXCEPT ![c] = TRUE]
    /\ UNCHANGED <<cache, pages_skipped_robots, g_robots_fetches>>

\* robots.rs:125-131: the cache is looked up under the read lock
RobotsRead(c) ==
    /\ r_pc[c] = "read"
    /\ IF cache[r_url[c].o] # NoEntry
       THEN /\ r_ret' = [r_ret EXCEPT ![c] = check_allowed(cache[r_url[c].o], r_url[c].p)]
            /\ r_pc' = [r_pc EXCEPT ![c] = "done"]
       ELSE /\ r_pc' = [r_pc EXCEPT ![c] = "fetch"]
            /\ UNCHANGED r_ret
    /\ UNCHANGED <<cache, r_url, r_response, r_result, pages_skipped_robots, g_robots_fetches>>

\* robots.rs:133-134, 60-103: robots.txt is fetched, outside any lock
RobotsFetch(c, response) ==
    /\ r_pc[c] = "fetch"
    /\ r_response' = [r_response EXCEPT ![c] = response]
    /\ r_result' = [r_result EXCEPT ![c] = RobotsTxtResultOf(response)]
    /\ r_pc' = [r_pc EXCEPT ![c] = "write"]
    /\ g_robots_fetches' = [g_robots_fetches EXCEPT ![r_url[c].o] = @ + 1]
    /\ UNCHANGED <<cache, r_url, r_ret, pages_skipped_robots>>

\* a store that overwrites the entry of the origin
store_result(existing, result) == result

\* robots.rs:139-146: what the write lock block leaves in the cache for the
\* origin: the entry another task stored meanwhile, else the result of this fetch
double_check(existing, result) == IF existing # NoEntry THEN existing ELSE result

\* stats.rs:32-34: fetch_add(1) on pages_skipped_robots
inc_skipped_robots(n) == n + 1

\* robots.rs:136-148: the result is stored unless the origin has one by now
RobotsWrite(c) ==
    /\ r_pc[c] = "write"
    /\ LET origin == r_url[c].o
           cached_result == double_check(cache[origin], r_result[c])
       IN /\ cache' = [cache EXCEPT ![origin] = cached_result]
          /\ r_ret' = [r_ret EXCEPT ![c] = check_allowed(cached_result, r_url[c].p)]
    /\ r_pc' = [r_pc EXCEPT ![c] = "done"]
    /\ UNCHANGED <<r_url, r_response, r_result, pages_skipped_robots, g_robots_fetches>>

\* the caller has its answer
RobotsReturn(c) ==
    /\ r_pc[c] = "done"
    /\ r_pc' = [r_pc EXCEPT ![c] = "idle"]
    /\ UNCHANGED <<cache, r_url, r_response, r_result, r_ret, pages_skipped_robots,
                   g_robots_fetches>>

RobotsNext ==
    /\ \E c \in Callers :
          \/ \E u \in RobotsUrls : RobotsCall(c, u)
          \/ RobotsRead(c)
          \/ \E response \in Responses : RobotsFetch(c, response)
          \/ RobotsWrite(c)
          \/ RobotsReturn(c)
    /\ UNCHANGED <<coreVars, browserVars, fetchVars, indexVars, chunkVars, rankVars, searchVars, stateVars, taskVars, boostVars, wordVars, linkVars, blockVars, plagiatVars>>

SpecRobots == Init /\ [][RobotsNext]_vars

(***************************************************************************)
(* The re-ranker (src/api/src/ranking.rs).  Scores are f32; they are       *)
(* written in thousandths, and every sum is rounded to a value that can be *)
(* represented: from 2.0 on only every eighth thousandth can, so that two  *)
(* scores that differ can have the same sum with a boost.  Scores are      *)
(* numbers (the distance of a hit is a JSON number and the configuration   *)
(* is finite), so partial_cmp orders them totally.                         *)
(***************************************************************************)
\* rounding of an f32 sum, toward zero
F32(x) ==
    IF x >= 2000 THEN (x \div 8) * 8
    ELSE IF x <= -2000 THEN -(((-x) \div 8) * 8)
    ELSE x

\* the results the store returns: base score, url.len(), get_path_depth(url),
\* and whether the lowercased url or title contains the lowercased query
Hits == {h \in [base : {100, 101, 900}, url_len : {20, 40}, depth : {0, 2}, has_query : BOOLEAN] :
            h.depth = 0 <=> h.url_len = 20}
ResultLists == UNION {[1..n -> Hits] : n \in 2..MaxResults}

\* ranking.rs:98-124: apply_ranking_boost, the score of one result
apply_ranking_boost(result, query_empty) ==
    LET url_len == IF result.url_len > 1 THEN result.url_len ELSE 1
        s1 == F32(result.base + (url_length_boost_factor \div url_len))
        s2 == IF result.depth = 0 THEN F32(s1 + domain_root_boost) ELSE s1
        s3 == IF result.depth > 0 THEN F32(s2 - F32(result.depth * path_depth_penalty)) ELSE s2
    IN IF ~query_empty /\ result.has_query THEN F32(s3 + exact_match_boost) ELSE s3

\* a comparison that puts the lower score first
ScoreBefore_ascending(a, b) == a.score < b.score

\* ranking.rs:133-137: b.score.partial_cmp(&a.score) is Less: a goes before b
ScoreBefore(a, b) == a.score > b.score

\* slice::sort_by is stable: x goes behind everything it is not before
RECURSIVE InsertSorted(_, _)
InsertSorted(sorted, x) ==
    IF sorted = <<>> THEN <<x>>
    ELSE IF ScoreBefore(x, sorted[Len(sorted)])
         THEN Append(InsertSorted(SubSeq(sorted, 1, Len(sorted) - 1), x), sorted[Len(sorted)])
         ELSE Append(sorted, x)

RECURSIVE SortFirst(_, _)
SortFirst(q, n) == IF n = 0 THEN <<>> ELSE InsertSorted(SortFirst(q, n - 1), q[n])

\* ranking.rs:127-139: every result is boosted, then the list is sorted by score
\* descending; id is the place of the result in the input
apply_ranking_boosts(results, query_empty) ==
    SortFirst([i \in 1..Len(results) |->
                 [id |-> i, score |-> apply_ranking_boost(results[i], query_empty)]],
              Len(results))

\* a search is re-ranked, and so is the same search with the base score of
\* result k increased
Rerank(results, query_empty, k, base) ==
    /\ rk_pc = "idle"
    /\ k \in 1..Len(results)
    /\ base > results[k].base
    /\ rk_pc' = "ranked"
    /\ rk_results' = results
    /\ rk_query_empty' = query_empty
    /\ rk_k' = k
    /\ rk_raised' = [results EXCEPT ![k].base = base]
    /\ rk_out' = apply_ranking_boosts(results, query_empty)
    /\ rk_out_raised' = apply_ranking_boosts([results EXCEPT ![k].base = base], query_empty)

\* the answer is sent and the lists are dropped
RankDone ==
    /\ rk_pc = "ranked"
    /\ rk_pc' = "idle"
    /\ rk_results' = <<>>
    /\ rk_query_empty' = TRUE
    /\ rk_k' = 0
    /\ rk_raised' = <<>>
    /\ rk_out' = <<>>
    /\ rk_out_raised' = <<>>

RankNext ==
    /\ \/ /\ rk_pc = "idle"
          /\ \E results \in ResultLists, query_empty \in BOOLEAN, k \in 1..MaxResults,
                base \in {101, 900, 3000} : Rerank(results, query_empty, k, base)
       \/ RankDone
    /\ UNCHANGED <<coreVars, browserVars, fetchVars, indexVars, chunkVars, robotsVars, searchVars, stateVars, taskVars, boostVars, wordVars, linkVars, blockVars, plagiatVars>>

SpecRank == Init /\ [][RankNext]_vars

(***************************************************************************)
(* GET /search (src/api/src/main.rs:52-95).                                *)
(***************************************************************************)
\* main.rs:76-80: the objects that parse, in the order of the response of the
\* store, each with the score 1 - distance of from_weaviate_json
RECURSIVE ParsedResults(_, _, _)
ParsedResults(items, parsed, i) ==
    IF i > Len(items) THEN <<>>
    ELSE (IF i \in parsed THEN <<[id |-> i, score |-> items[i].base]>> ELSE <<>>)
         \o ParsedResults(items, parsed, i + 1)

\* main.rs:52-89: the query succeeds and the results are answered as parsed
SearchOk(items, parsed, query_empty) ==
    /\ s_pc = "idle"
    /\ s_pc' = "answered"
    /\ s_items' = items
    /\ s_parsed' = parsed
    /\ s_query_empty' = query_empty
    /\ s_status' = 200
    /\ s_response' = ParsedResults(items, parsed, 1)

\* main.rs:90-93: the query fails
SearchErr(query_empty) ==
    /\ s_pc = "idle"
    /\ s_pc' = "answered"
    /\ s_items' = <<>>
    /\ s_parsed' = {}
    /\ s_query_empty' = query_empty
    /\ s_status' = 500
    /\ s_response' = <<>>

\* the response is sent
SearchDone ==
    /\ s_pc = "answered"
    /\ s_pc' = "idle"
    /\ s_items' = <<>>
    /\ s_parsed' = {}
    /\ s_query_empty' = TRUE
    /\ s_status' = 0
    /\ s_response' = <<>>

SearchNext ==
    /\ \/ /\ s_pc = "idle"
          /\ \E items \in ResultLists, query_empty \in BOOLEAN :
                \E parsed \in SUBSET (1..Len(items)) : SearchOk(items, parsed, query_empty)
       \/ \E query_empty \in BOOLEAN : SearchErr(query_empty)
       \/ SearchDone
    /\ UNCHANGED <<coreVars, browserVars, fetchVars, indexVars, chunkVars, robotsVars, rankVars, stateVars, taskVars, boostVars, wordVars, linkVars, blockVars, plagiatVars>>

SpecSearch == Init /\ [][SearchNext]_vars

(***************************************************************************)
(* CrawlState (state.rs): two SQLite tables behind one Mutex, so every     *)
(* method is one step.  pending_urls has the rowid id and UNIQUE(url),     *)
(* visited_urls has the primary key url.                                   *)
(***************************************************************************)
\* the rowid SQLite gives a new row: one more than the largest in the table
NextId(rows) ==
    IF rows = {} THEN 1
    ELSE (CHOOSE m \in {r.id : r \in rows} : \A r \in rows : r.id <= m) + 1

\* INSERT INTO pending_urls without OR REPLACE and without the UNIQUE constraint
insert_pending_plain(rows, a) ==
    rows \cup {[id |-> NextId(rows), url |-> a.url, retry_count |-> a.retry_count,
                depth |-> a.depth, domain |-> a.domain]}

\* state.rs:30-37, 65-66: INSERT OR REPLACE INTO pending_urls: the row that
\* conflicts on url is deleted, then the new row is inserted
insert_or_replace_pending(rows, a) ==
    LET kept == {r \in rows : r.url # a.url}
    IN kept \cup {[id |-> NextId(kept), url |-> a.url, retry_count |-> a.retry_count,
                   depth |-> a.depth, domain |-> a.domain]}

\* the arguments of an operation that takes a url only
OnUrl(page_url) == [url |-> page_url, retry_count |-> 0, depth |-> 0, domain |-> ""]

\* what t_last says of an operation with arguments a
Op(name, a) ==
    [op |-> name, url |-> a.url, retry_count |-> a.retry_count, depth |-> a.depth,
     domain |-> a.domain,
     was_there |-> IF name = "mark_visited"
                   THEN \E r \in visited_urls : r.url = a.url
                   ELSE \E r \in pending_urls : r.url = a.url,
     pending_before |-> Cardinality(pending_urls),
     visited_before |-> visited_urls]

\* state.rs:62-69
add_pending(a) ==
    /\ t_ops < MaxOps
    /\ t_ops' = t_ops + 1
    /\ pending_urls' = insert_or_replace_pending(pending_urls, a)
    /\ t_last' = Op("add_pending", a)
    /\ UNCHANGED visited_urls

\* state.rs:72-85: the same statement for every element, in one transaction
add_pending_batch(a1, a2) ==
    /\ t_ops < MaxOps
    /\ t_ops' = t_ops + 1
    /\ pending_urls' = insert_or_replace_pending(insert_or_replace_pending(pending_urls, a1), a2)
    /\ t_last' = Op("add_pending_batch", a2)
    /\ UNCHANGED visited_urls

\* state.rs:88-92
remove_pending(page_url) ==
    /\ t_ops < MaxOps
    /\ t_ops' = t_ops + 1
    /\ pending_urls' = {r \in pending_urls : r.url # page_url}
    /\ t_last' = Op("remove_pending", OnUrl(page_url))
    /\ UNCHANGED visited_urls

\* state.rs:95-102: INSERT OR IGNORE INTO visited_urls
state_mark_visited(page_url) ==
    /\ t_ops < MaxOps
    /\ t_ops' = t_ops + 1
    /\ visited_urls' = IF \E r \in visited_urls : r.url = page_url
                       THEN visited_urls
                       ELSE visited_urls \cup {[url |-> page_url, visited_at |-> t_ops]}
    /\ t_last' = Op("mark_visited", OnUrl(page_url))
    /\ UNCHANGED pending_urls

\* state.rs:152-156
clear_pending ==
    /\ t_ops < MaxOps
    /\ t_ops' = t_ops + 1
    /\ pending_urls' = {}
    /\ t_last' = Op("clear_pending", OnUrl(""))
    /\ UNCHANGED visited_urls

\* state.rs:159-163
clear_visited ==
    /\ t_ops < MaxOps
    /\ t_ops' = t_ops + 1
    /\ visited_urls' = {}
    /\ t_last' = Op("clear_visited", OnUrl(""))
    /\ UNCHANGED pending_urls

StateNext ==
    /\ \/ \E a \in PendingArgs : add_pending(a)
       \/ \E a1, a2 \in {a \in PendingArgs : a.retry_count = a.depth /\ a.domain = "b"} :
             add_pending_batch(a1, a2)
       \/ \E u \in {"u", "v"} : remove_pending(u)
       \/ \E u \in {"u", "v"} : state_mark_visited(u)
       \/ clear_pending
       \/ clear_visited
    /\ UNCHANGED <<coreVars, browserVars, fetchVars, indexVars, chunkVars, robotsVars, rankVars,
                   searchVars, taskVars, boostVars, wordVars, linkVars, blockVars, plagiatVars>>

SpecState == Init /\ [][StateNext]_vars

(***************************************************************************)
(* The tasks of a CrawlLoop over any sequence of run(), stop() and         *)
(* add_crawl_request() calls (crawl_loop.rs:106-152, 380-436).  The crawl  *)
(* of a job is one step here.  A task is                                   *)
(*   none      not spawned                                                 *)
(*   check     at the top of its loop, before the load of shutdown         *)
(*   claim     past the load, before the write lock of crawl_requests      *)
(*   job       holding a request, before the while loop                    *)
(*   fetch     inside the while loop, processing the request               *)
(*   exited    left its loop at the shutdown check                         *)
(*   aborted   ended by JoinHandle::abort                                  *)
(***************************************************************************)
LiveTasks == {t \in TaskIds : cl_pc[t] \in {"check", "claim", "job", "fetch"}}

\* crawl_loop.rs:406-426: run() spawns max_concurrent_requests runners and pushes
\* them onto self.runners, whatever the Vec holds already
TaskRun ==
    /\ cl_runs < MaxRuns
    /\ LET spawned == (cl_runs * NumRunners + 1)..((cl_runs + 1) * NumRunners)
       IN /\ cl_pc' = [t \in TaskIds |-> IF t \in spawned THEN "check" ELSE cl_pc[t]]
          /\ cl_runners' = cl_runners \cup spawned
          /\ g_late' = IF g_stopped THEN g_late \cup spawned ELSE g_late
    /\ cl_runs' = cl_runs + 1
    /\ UNCHANGED <<cl_shutdown, cl_abort, cl_requests, cl_job, g_stopped, g_enq_after, g_event>>

\* crawl_loop.rs:430-436, 357-362: stop() stores false, aborts the handle of every
\* runner of the Vec and clears the Vec
TaskStop ==
    /\ cl_shutdown' = FALSE
    /\ cl_abort' = cl_abort \cup cl_runners
    /\ cl_runners' = {}
    /\ g_stopped' = TRUE
    /\ UNCHANGED <<cl_runs, cl_pc, cl_requests, cl_job, g_enq_after, g_late, g_event>>

\* crawl_loop.rs:396-402: add_crawl_request inserts under the base URL
TaskEnqueue(o) ==
    /\ cl_requests' = [cl_requests EXCEPT ![o] = TRUE]
    /\ g_enq_after' = [g_enq_after EXCEPT ![o] = g_stopped]
    /\ g_event' = [g_event EXCEPT ![o] = IF cl_requests[o] THEN "replaced" ELSE "enqueued"]
    /\ UNCHANGED <<cl_shutdown, cl_runners, cl_runs, cl_pc, cl_abort, cl_job, g_stopped, g_late>>

\* a check that never ends the task
shutdown_ignored(flag) == FALSE

\* crawl_loop.rs:126: `if !shutdown.load(Ordering::SeqCst)`
shutdown_requested(flag) == ~flag

\* crawl_loop.rs:125-130: the task loads the flag at the top of its loop
TaskCheck(t) ==
    /\ cl_pc[t] = "check"
    /\ cl_pc' = [cl_pc EXCEPT ![t] = IF shutdown_requested(cl_shutdown) THEN "exited" ELSE "claim"]
    /\ UNCHANGED <<cl_shutdown, cl_runners, cl_runs, cl_abort, cl_requests, cl_job,
                   g_stopped, g_enq_after, g_late, g_event>>

\* crawl_loop.rs:134-152: under the write lock the task removes the request of
\* the first key of the map, whichever that is; with no request it sleeps and
\* goes back to the top
TaskClaim(t) ==
    /\ cl_pc[t] = "claim"
    /\ IF \E o \in Origins : cl_requests[o]
       THEN \E key \in Origins :
               /\ cl_requests[key]
               /\ cl_requests' = [cl_requests EXCEPT ![key] = FALSE]
               /\ cl_job' = [cl_job EXCEPT ![t] = IF g_enq_after[key] THEN "after" ELSE "before"]
               /\ g_event' = [g_event EXCEPT ![key] = "claimed"]
               /\ cl_pc' = [cl_pc EXCEPT ![t] = "job"]
       ELSE /\ cl_pc' = [cl_pc EXCEPT ![t] = "check"]
            /\ UNCHANGED <<cl_requests, cl_job, g_event>>
    /\ UNCHANGED <<cl_shutdown, cl_runners, cl_runs, cl_abort, g_stopped, g_enq_after, g_late>>

\* crawl_loop.rs:154-165: the while condition loads the flag before the first URL
TaskJobStart(t) ==
    /\ cl_pc[t] = "job"
    /\ IF cl_shutdown
       THEN /\ cl_pc' = [cl_pc EXCEPT ![t] = "fetch"]
            /\ UNCHANGED cl_job
       ELSE /\ cl_pc' = [cl_pc EXCEPT ![t] = "check"]
            /\ cl_job' = [cl_job EXCEPT ![t] = "none"]
    /\ UNCHANGED <<cl_shutdown, cl_runners, cl_runs, cl_abort, cl_requests,
                   g_stopped, g_enq_after, g_late, g_event>>

\* crawl_loop.rs:163-351: the crawl of the job ends and the task loops back
TaskJobDone(t) ==
    /\ cl_pc[t] = "fetch"
    /\ cl_pc' = [cl_pc EXCEPT ![t] = "check"]
    /\ cl_job' = [cl_job EXCEPT ![t] = "none"]
    /\ UNCHANGED <<cl_shutdown, cl_runners, cl_runs, cl_abort, cl_requests,
                   g_stopped, g_enq_after, g_late, g_event>>

\* crawl_loop.rs:359-361: the abort ends the task at one of its awaits
TaskAbort(t) ==
    /\ t \in cl_abort
    /\ t \in LiveTasks
    /\ cl_pc' = [cl_pc EXCEPT ![t] = "aborted"]
    /\ UNCHANGED <<cl_shutdown, cl_runners, cl_runs, cl_abort, cl_requests, cl_job,
                   g_stopped, g_enq_after, g_late, g_event>>

\* a step of task t itself
TaskStep(t) == TaskCheck(t) \/ TaskClaim(t) \/ TaskJobStart(t) \/ TaskJobDone(t)

OtherThanTasks ==
    <<coreVars, browserVars, fetchVars, indexVars, chunkVars, robotsVars, rankVars,
      searchVars, stateVars, boostVars, wordVars, linkVars, blockVars, plagiatVars>>

TaskNext ==
    /\ \/ TaskRun
       \/ TaskStop
       \/ \E o \in Origins : TaskEnqueue(o)
       \/ \E t \in TaskIds : TaskStep(t)
       \/ \E t \in TaskIds : TaskAbort(t)
    /\ UNCHANGED OtherThanTasks

SpecTasks == Init /\ [][TaskNext]_vars

\* SpecTasks with a scheduler under which every task that can take a step does
SpecTasksFair ==
    /\ Init /\ [][TaskNext]_vars
    /\ \A t \in TaskIds : WF_vars(TaskStep(t) /\ UNCHANGED OtherThanTasks)

(***************************************************************************)
(* The exact-match step of apply_ranking_boost (ranking.rs:117-124) on     *)
(* queries, URLs and titles of up to MaxText letters.                      *)
(***************************************************************************)
Letters == {"a", "A", "b"}
Words == UNION {[1..n -> Letters] : n \in 0..MaxText}

\* str::to_lowercase
to_lowercase(text) == [i \in 1..Len(text) |-> Lower(text[i])]

\* str::contains: pat occurs in text at some offset
Contains(text, pat) ==
    \E i \in 0..(Len(text) - Len(pat)) : SubSeq(text, i + 1, i + Len(pat)) = pat

\* a test against the url and the title as they are written
exact_match_case_sensitive(query, result_url, title) ==
    LET query_lower == to_lowercase(query)
    IN query_lower # <<>> /\ (Contains(result_url, query_lower) \/ Contains(title, query_lower))

\* ranking.rs:119-122: the condition of the exact match boost
exact_match(query, result_url, title) ==
    LET query_lower == to_lowercase(query)
    IN /\ query_lower # <<>>
       /\ \/ Contains(to_lowercase(result_url), query_lower)
          \/ Contains(to_lowercase(title), query_lower)

\* ranking.rs:117-124: step 4 of apply_ranking_boost; has_query of a hit of the
\* re-ranker is exact_match of its url and title
exact_match_step(score, query, result_url, title) ==
    IF exact_match(query, result_url, title) THEN F32(score + exact_match_boost) ELSE score

\* the step runs on a result
BoostApply(score, query, result_url, title) ==
    /\ bo_pc = "idle"
    /\ bo_pc' = "boosted"
    /\ bo_query' = query
    /\ bo_url' = result_url
    /\ bo_title' = title
    /\ bo_base' = score
    /\ bo_score' = exact_match_step(score, query, result_url, title)

\* the result is dropped
BoostDone ==
    /\ bo_pc = "boosted"
    /\ bo_pc' = "idle"
    /\ bo_query' = <<>>
    /\ bo_url' = <<>>
    /\ bo_title' = <<>>
    /\ bo_base' = 0
    /\ bo_score' = 0

BoostNext ==
    /\ \/ /\ bo_pc = "idle"
          /\ \E score \in {100, 900, 2504}, query \in Words, result_url \in Words, title \in Words :
                BoostApply(score, query, result_url, title)
       \/ BoostDone
    /\ UNCHANGED <<coreVars, browserVars, fetchVars, indexVars, chunkVars, robotsVars, rankVars,
                   searchVars, stateVars, taskVars, wordVars, linkVars, blockVars, plagiatVars>>

SpecBoost == Init /\ [][BoostNext]_vars

(***************************************************************************)
(* create_chunks on the text of the blocks (index.rs:143-297).  A text is  *)
(* written as its whitespace-separated words, a run of n equal words as    *)
(* one item.  The words are x and y (no sentence end in them), x. (ends    *)
(* in a full stop), 3.14 (a full stop inside), and the 3. and 14 that a    *)
(* split of 3.14 at the full stop leaves.  Block texts are trimmed and not *)
(* empty (index.rs:100-105, 128-134).                                      *)
(***************************************************************************)
\* text with n more words w at its end
AddWord(text, w, n) ==
    IF text # <<>> /\ text[Len(text)].w = w
    THEN [text EXCEPT ![Len(text)].n = @ + n]
    ELSE Append(text, [w |-> w, n |-> n])

RECURSIVE JoinText(_, _)
\* the words of a followed by the words of b
JoinText(a, b) ==
    IF b = <<>> THEN a ELSE JoinText(AddWord(a, Head(b).w, Head(b).n), Tail(b))

RECURSIVE JoinAll(_)
\* the words of a sequence of texts, in order
JoinAll(texts) == IF texts = <<>> THEN <<>> ELSE JoinText(Head(texts), JoinAll(Tail(texts)))

RECURSIVE WordCount(_)
\* text.split_whitespace().count()
WordCount(text) == IF text = <<>> THEN 0 ELSE Head(text).n + WordCount(Tail(text))

RECURSIVE SplitAt(_, _, _)
\* index.rs:278-297: the loop of split_into_sentences: a sentence ends behind
\* every '.', whatever follows it
SplitAt(items, current_sentence, sentences) ==
    IF items = <<>>
    THEN IF current_sentence # <<>> THEN Append(sentences, current_sentence) ELSE sentences
    ELSE LET it == Head(items)
             rest == IF it.n > 1 THEN <<[it EXCEPT !.n = @ - 1]>> \o Tail(items) ELSE Tail(items)
         IN IF it.w \in {"x.", "3."}
            THEN SplitAt(rest, <<>>, Append(sentences, AddWord(current_sentence, it.w, 1)))
            ELSE IF it.w = "3.14"
            THEN SplitAt(rest, <<[w |-> "14", n |-> 1]>>,
                         Append(sentences, AddWord(current_sentence, "3.", 1)))
            ELSE SplitAt(Tail(items), AddWord(current_sentence, it.w, it.n), sentences)

\* index.rs:278-297: split_into_sentences
split_into_sentences(text) == SplitAt(text, <<>>, <<>>)

RECURSIVE SentenceTexts(_, _, _, _)
\* index.rs:176-213: the contents of the chunks of a block that alone exceeds
\* MAX_CHUNK_TOKENS
SentenceTexts(sentences, i, sentence_chunk, sentence_tokens) ==
    IF i > Len(sentences)
    THEN IF sentence_chunk # <<>> THEN <<sentence_chunk>> ELSE <<>>
    ELSE LET sentence_tokens_count == estimate_tokens(WordCount(sentences[i]))
         IN IF sentence_tokens + sentence_tokens_count > MAX_CHUNK_TOKENS /\ sentence_chunk # <<>>
            THEN <<sentence_chunk>>
                 \o SentenceTexts(sentences, i + 1, sentences[i], sentence_tokens_count)
            ELSE SentenceTexts(sentences, i + 1, JoinText(sentence_chunk, sentences[i]),
                               sentence_tokens + sentence_tokens_count)

RECURSIVE ChunkTextsOf(_, _, _, _)
\* index.rs:150-275: the loop of create_chunks with chunks, current_chunk_text and
\* current_tokens, and the save of the remaining content
ChunkTextsOf(blocks, out, current_chunk_text, tokens) ==
    IF blocks = <<>>
    THEN IF current_chunk_text # <<>> THEN Append(out, current_chunk_text) ELSE out
    ELSE LET text == Head(blocks)
             block_tokens == estimate_tokens(WordCount(text))
         IN IF block_tokens > MAX_CHUNK_TOKENS
            THEN ChunkTextsOf(Tail(blocks),
                              (IF current_chunk_text # <<>> THEN Append(out, current_chunk_text) ELSE out)
                                 \o SentenceTexts(split_into_sentences(text), 1, <<>>, 0),
                              <<>>,
                              IF current_chunk_text # <<>> THEN 0 ELSE tokens)
            ELSE LET flush == /\ tokens + block_tokens > MAX_CHUNK_TOKENS
                              /\ current_chunk_text # <<>>
                              /\ tokens > 0
                     out1 == IF flush THEN Append(out, current_chunk_text) ELSE out
                     text2 == JoinText(IF flush THEN <<>> ELSE current_chunk_text, text)
                     tokens2 == (IF flush THEN 0 ELSE tokens) + block_tokens
                     save == tokens2 >= MIN_CHUNK_TOKENS
                 IN ChunkTextsOf(Tail(blocks),
                                 IF save THEN Append(out1, text2) ELSE out1,
                                 IF save THEN <<>> ELSE text2,
                                 IF save THEN 0 ELSE tokens2)

\* the texts of the blocks: short ones, one that fills a chunk, and ones above
\* MAX_CHUNK_TOKENS of one sentence, of two, and with a 3.14 in the middle
BlockTexts ==
    {<<[w |-> "x", n |-> 3]>>,
     <<[w |-> "3.14", n |-> 1], [w |-> "y", n |-> 2]>>,
     <<[w |-> "y", n |-> 300]>>,
     <<[w |-> "x", n |-> 600]>>,
     <<[w |-> "x", n |-> 300], [w |-> "x.", n |-> 1], [w |-> "y", n |-> 300]>>,
     <<[w |-> "x", n |-> 300], [w |-> "3.14", n |-> 1], [w |-> "y", n |-> 300]>>}

\* index.rs:143-275: create_chunks is called on the blocks of a page
CreateChunks(blocks) ==
    /\ cw_pc = "idle"
    /\ cw_pc' = "done"
    /\ cw_blocks' = blocks
    /\ cw_chunks' = ChunkTextsOf(blocks, <<>>, <<>>, 0)

\* the chunks are handed on
ChunksTaken ==
    /\ cw_pc = "done"
    /\ cw_pc' = "idle"
    /\ cw_blocks' = <<>>
    /\ cw_chunks' = <<>>

WordNext ==
    /\ \/ /\ cw_pc = "idle"
          /\ \E blocks \in UNION {[1..n -> BlockTexts] : n \in 1..MaxBlocks} : CreateChunks(blocks)
       \/ ChunksTaken
    /\ UNCHANGED <<coreVars, browserVars, fetchVars, indexVars, chunkVars, robotsVars, rankVars,
                   searchVars, stateVars, taskVars, boostVars, linkVars, blockVars, plagiatVars>>

SpecWords == Init /\ [][WordNext]_vars

(***************************************************************************)
(* extract_links (web_visitor.rs:36-117, main.rs:209-273).  A URL string   *)
(* is scheme, host with or without a leading www., path, a flag for a      *)
(* trailing '/', and a flag for a #fragment:                               *)
(*   [scheme |-> "https", www |-> TRUE, host |-> "a.test", path |-> "x",   *)
(*    slash |-> FALSE, frag |-> FALSE]     is  https://www.a.test/x        *)
(* scheme "" is a string without its scheme: a.test/x.  An a[href]         *)
(* element is its style (hidden or not) and its href: an absolute URL, a   *)
(* relative path, or one of the skipped kinds (empty, mailto:).            *)
(***************************************************************************)
LinkStr(scheme, www, host, path, slash, frag) ==
    [scheme |-> scheme, www |-> www, host |-> host, path |-> path, slash |-> slash, frag |-> frag]

\* the pages' base URLs
LinkBases == {LinkStr("https", FALSE, "a.test", "", TRUE, FALSE),
              LinkStr("http", TRUE, "b.test", "", TRUE, FALSE)}

\* the a[href] elements a page can hold
LinkElements ==
    {[hidden |-> FALSE, kind |-> "abs", href |-> LinkStr("https", FALSE, "a.test", "x", FALSE, FALSE)],
     [hidden |-> FALSE, kind |-> "abs", href |-> LinkStr("https", TRUE, "a.test", "x", FALSE, FALSE)],
     [hidden |-> FALSE, kind |-> "abs", href |-> LinkStr("http", FALSE, "a.test", "x", FALSE, FALSE)],
     [hidden |-> FALSE, kind |-> "abs", href |-> LinkStr("https", FALSE, "a.test", "x", TRUE, FALSE)],
     [hidden |-> FALSE, kind |-> "abs", href |-> LinkStr("https", FALSE, "a.test", "x", FALSE, TRUE)],
     [hidden |-> FALSE, kind |-> "abs", href |-> LinkStr("https", FALSE, "a.test", "", FALSE, FALSE)],
     [hidden |-> FALSE, kind |-> "abs", href |-> LinkStr("ftp", FALSE, "a.test", "x", FALSE, FALSE)],
     [hidden |-> FALSE, kind |-> "rel", href |-> LinkStr("", FALSE, "", "y", FALSE, FALSE)],
     [hidden |-> FALSE, kind |-> "mailto", href |-> NoLink],
     [hidden |-> TRUE, kind |-> "abs", href |-> LinkStr("https", FALSE, "b.test", "", TRUE, FALSE)]}

\* web_visitor.rs:80-81, main.rs:254-255: base_url.join(href).to_string(); the
\* string of a URL with an empty path ends in '/'
url_join(base_url, element) ==
    LET joined == IF element.kind = "abs" THEN element.href
                  ELSE [base_url EXCEPT !.path = element.href.path,
                                        !.slash = element.href.slash,
                                        !.frag = element.href.frag]
    IN [joined EXCEPT !.slash = IF joined.path = "" THEN TRUE ELSE @]

\* web_visitor.rs:40-91, main.rs:213-267: the loop over the elements: hidden
\* ones and skipped kinds are passed over, the rest joined and filtered
RECURSIVE collect_links(_, _)
collect_links(elements, base_url) ==
    IF elements = <<>> THEN <<>>
    ELSE LET element == Head(elements)
             url_str == url_join(base_url, element)
             rest == collect_links(Tail(elements), base_url)
         IN IF element.hidden \/ element.kind \notin {"abs", "rel"}
            THEN rest
            ELSE IF url_str.scheme \in {"http", "https"} /\ ~url_str.frag
                 THEN <<url_str>> \o rest
                 ELSE rest

\* web_visitor.rs:95-109: the scheme, a leading www. and a trailing '/' are
\* taken off every link
strip_link(u) == [u EXCEPT !.scheme = "", !.www = FALSE, !.slash = FALSE]

\* the place of a URL string in the order of its bytes
LinkKey(u) ==
    LET scheme == CASE u.scheme = "" -> 0 [] u.scheme = "ftp" -> 1
                    [] u.scheme = "http" -> 2 [] OTHER -> 3
        host == CASE u.host = "" -> 0 [] u.host = "a.test" -> 1 [] OTHER -> 2
        path == CASE u.path = "" -> 0 [] u.path = "x" -> 1 [] OTHER -> 2
        bit(b) == IF b THEN 1 ELSE 0
    IN ((((scheme * 2 + bit(u.www)) * 3 + host) * 3 + path) * 2 + bit(u.slash)) * 2 + bit(u.frag)

RECURSIVE LinkInsert(_, _)
LinkInsert(u, sorted) ==
    IF sorted = <<>> THEN <<u>>
    ELSE IF LinkKey(Head(sorted)) < LinkKey(u)
         THEN <<Head(sorted)>> \o LinkInsert(u, Tail(sorted))
         ELSE <<u>> \o sorted

RECURSIVE sort_links(_)
\* web_visitor.rs:110, main.rs:270: links.sort()
sort_links(links) ==
    IF links = <<>> THEN <<>> ELSE LinkInsert(Head(links), sort_links(Tail(links)))

RECURSIVE dedup_links(_)
\* web_visitor.rs:111, main.rs:271: links.dedup() drops a link equal to the one
\* before it
dedup_links(links) ==
    IF Len(links) <= 1 THEN links
    ELSE IF links[1] = links[2] THEN dedup_links(Tail(links))
         ELSE <<links[1]>> \o dedup_links(Tail(links))

\* web_visitor.rs:36-117: extract_links of the runner (crawl_loop.rs:310)
ExtractLinksVisitor(elements, base_url) ==
    /\ el_pc = "idle"
    /\ el_pc' = "done"
    /\ el_fn' = "web_visitor"
    /\ el_base' = base_url
    /\ el_elements' = elements
    /\ el_links' = dedup_links(sort_links(
                       [i \in 1..Len(collect_links(elements, base_url)) |->
                           strip_link(collect_links(elements, base_url)[i])]))

\* main.rs:209-273: extract_links of the POST /crawl handler (main.rs:115)
ExtractLinksHandler(elements, base_url) ==
    /\ el_pc = "idle"
    /\ el_pc' = "done"
    /\ el_fn' = "main"
    /\ el_base' = base_url
    /\ el_elements' = elements
    /\ el_links' = dedup_links(sort_links(collect_links(elements, base_url)))

\* the caller takes the links
LinksTaken ==
    /\ el_pc = "done"
    /\ el_pc' = "idle"
    /\ el_fn' = "none"
    /\ el_base' = NoLink
    /\ el_elements' = <<>>
    /\ el_links' = <<>>

LinkNext ==
    /\ \/ /\ el_pc = "idle"
          /\ \E base_url \in LinkBases :
             \E elements \in UNION {[1..n -> LinkElements] : n \in 0..MaxLinks} :
                \/ ExtractLinksVisitor(elements, base_url)
                \/ ExtractLinksHandler(elements, base_url)
       \/ LinksTaken
    /\ UNCHANGED <<coreVars, browserVars, fetchVars, indexVars, chunkVars, robotsVars, rankVars,
                   searchVars, stateVars, taskVars, boostVars, wordVars, blockVars, plagiatVars>>

SpecLinks == Init /\ [][LinkNext]_vars

(***************************************************************************)
(* Block extraction (extractor_content.rs:41-130, index.rs:69-140).  An    *)
(* element is its tag, its trimmed text and its child elements.  The pages *)
(* hold headings, paragraphs and containers; an element of any other tag   *)
(* is not in them.  None is the heading of a block without one.            *)
(***************************************************************************)
HeadingOf(heading_text) == [tag |-> "h2", text |-> heading_text, children |-> <<>>]
ParagraphOf(text) == [tag |-> "p", text |-> text, children |-> <<>>]
ContainerOf(tag_name, children) == [tag |-> tag_name, text |-> "", children |-> children]

ContainerTags == {"div", "section", "article", "main", "ul", "ol", "table", "pre", "blockquote"}

\* sequences of at most MaxChildren elements of S
ChildLists(S) == UNION {[1..n -> S] : n \in 0..MaxChildren}

LeafElements == {HeadingOf("A"), HeadingOf("B"), ParagraphOf("t")}
\* a container of leaves, and a container around one of these
InnerContainers == {ContainerOf("div", ch) : ch \in ChildLists(LeafElements)}
OuterContainers == {ContainerOf("section", <<c>>) : c \in InnerContainers}
\* what the content element of a page holds
Documents == {d \in ChildLists(LeafElements \cup InnerContainers \cup OuterContainers) : d # <<>>}

RECURSIVE extract_blocks_from_element(_, _)
\* extractor_content.rs:41-130: the blocks of the children of an element, in
\* order; the recursion into a container takes current_heading along
extract_blocks_from_element(children, parent_heading) ==
    IF children = <<>> THEN <<>>
    ELSE LET child_element == Head(children)
         IN IF child_element.tag = "h2"
            THEN extract_blocks_from_element(Tail(children),
                    IF child_element.text # "" THEN child_element.text ELSE parent_heading)
            ELSE IF child_element.tag = "p"
            THEN (IF child_element.text # ""
                  THEN <<[heading |-> parent_heading, text |-> child_element.text]>>
                  ELSE <<>>)
                 \o extract_blocks_from_element(Tail(children), parent_heading)
            ELSE IF child_element.tag \in ContainerTags
            THEN extract_blocks_from_element(child_element.children, parent_heading)
                 \o extract_blocks_from_element(Tail(children), parent_heading)
            ELSE extract_blocks_from_element(Tail(children), parent_heading)

RECURSIVE index_extract_blocks_from_element(_, _)
\* index.rs:69-140: the same loop with current_heading its second argument;
\* every call starts it at None (index.rs:74), the recursion hands nothing on
index_extract_blocks_from_element(children, current_heading) ==
    IF children = <<>> THEN <<>>
    ELSE LET child_element == Head(children)
         IN IF child_element.tag = "h2"
            THEN index_extract_blocks_from_element(Tail(children),
                    IF child_element.text # "" THEN child_element.text ELSE current_heading)
            ELSE IF child_element.tag \in ContainerTags
            THEN index_extract_blocks_from_element(child_element.children, "None")
                 \o index_extract_blocks_from_element(Tail(children), current_heading)
            ELSE (IF child_element.text # ""
                  THEN <<[heading |-> current_heading, text |-> child_element.text]>>
                  ELSE <<>>)
                 \o index_extract_blocks_from_element(Tail(children), current_heading)

\* extractor_content.rs:6-38: extract_content_blocks on a page
ExtractContentBlocks(doc) ==
    /\ eb_pc = "idle"
    /\ eb_pc' = "done"
    /\ eb_fn' = "extractor_content"
    /\ eb_doc' = doc
    /\ eb_blocks' = extract_blocks_from_element(doc, "None")

\* index.rs:31-66: extract_content_blocks of extract_webpage_chunks (index.rs:305)
IndexExtractContentBlocks(doc) ==
    /\ eb_pc = "idle"
    /\ eb_pc' = "done"
    /\ eb_fn' = "index"
    /\ eb_doc' = doc
    /\ eb_blocks' = index_extract_blocks_from_element(doc, "None")

\* the caller takes the blocks
BlocksTaken ==
    /\ eb_pc = "done"
    /\ eb_pc' = "idle"
    /\ eb_fn' = "none"
    /\ eb_doc' = <<>>
    /\ eb_blocks' = <<>>

BlockNext ==
    /\ \/ /\ eb_pc = "idle"
          /\ \E doc \in Documents :
                \/ ExtractContentBlocks(doc)
                \/ IndexExtractContentBlocks(doc)
       \/ BlocksTaken
    /\ UNCHANGED <<coreVars, browserVars, fetchVars, indexVars, chunkVars, robotsVars, rankVars,
                   searchVars, stateVars, taskVars, boostVars, wordVars, linkVars, plagiatVars>>

SpecBlocks == Init /\ [][BlockNext]_vars

(***************************************************************************)
(* POST /plagiat (src/api/src/main.rs:97-153).  Scores and thresholds are  *)
(* in tenths: 6 is 0.6.  An object of the store is parsed or not; a parsed *)
(* one has the score 1 - distance of from_weaviate_json, which is below 0  *)
(* for a distance above 1.                                                 *)
(***************************************************************************)
PlagiatItems == {[ok |-> FALSE, score |-> 0]} \cup {[ok |-> TRUE, score |-> s] : s \in {-5, 0, 6, 10}}
PlagiatThresholds == {-5, 0, 6, 11}

RECURSIVE highest_similarity(_, _)
\* main.rs:119, 129-131: the largest score of the parsed objects, from 0.0 on
highest_similarity(items, highest) ==
    IF items = <<>> THEN highest
    ELSE highest_similarity(Tail(items),
            IF Head(items).ok /\ Head(items).score > highest THEN Head(items).score ELSE highest)

\* main.rs:118, 133-136: the parsed objects with a score of the threshold or above
matched_documents(items, threshold) ==
    SelectSeq(items, LAMBDA result : result.ok /\ result.score >= threshold)

\* main.rs:97-148: the query succeeds
PlagiatOk(items, threshold) ==
    /\ pl_pc = "idle"
    /\ pl_pc' = "answered"
    /\ pl_threshold' = threshold
    /\ pl_items' = items
    /\ pl_status' = 200
    /\ pl_response' = [is_plagiat |-> highest_similarity(items, 0) >= threshold,
                       similarity_score |-> highest_similarity(items, 0),
                       matched_documents |-> matched_documents(items, threshold)]

\* main.rs:149-151: the query fails
PlagiatErr(threshold) ==
    /\ pl_pc = "idle"
    /\ pl_pc' = "answered"
    /\ pl_threshold' = threshold
    /\ pl_items' = <<>>
    /\ pl_status' = 500
    /\ pl_response' = NoPlagiatResult

\* the response is sent
PlagiatDone ==
    /\ pl_pc = "answered"
    /\ pl_pc' = "idle"
    /\ pl_threshold' = 0
    /\ pl_items' = <<>>
    /\ pl_status' = 0
    /\ pl_response' = NoPlagiatResult

PlagiatNext ==
    /\ \/ /\ pl_pc = "idle"
          /\ \E threshold \in PlagiatThresholds :
                \/ \E items \in UNION {[1..n -> PlagiatItems] : n \in 0..MaxResults} :
                      PlagiatOk(items, threshold)
                \/ PlagiatErr(threshold)
       \/ PlagiatDone
    /\ UNCHANGED <<coreVars, browserVars, fetchVars, indexVars, chunkVars, robotsVars, rankVars,
                   searchVars, stateVars, taskVars, boostVars, wordVars, linkVars, blockVars>>

SpecPlagiat == Init /\ [][PlagiatNext]_vars

(***************************************************************************)
(* Properties of one crawl job (SpecJob) and of the runner pool (SpecPool) *)
(***************************************************************************)
\* number of times u was handed to the fetcher in runner r's current job
Attempts(r, u) == Cardinality({i \in 1..Len(g_fetched[r]) : g_fetched[r][i] = u})

\* what runner r has taken off its frontier: the fetched URLs, then the one it
\* holds and has not handed to the fetcher yet (it sleeps on the rate limit)
Popped(r) ==
    IF url[r] # NoUrl /\ ~InSeq(url[r], g_fetched[r])
    THEN Append(g_fetched[r], url[r]) ELSE g_fetched[r]

\* the runner hands a normalized URL to the fetcher at most once per job, in
\* normalized form, and never while it is in the visited set
RunnerFetchesOnce ==
    \A r \in Runners :
        /\ \A i, k \in 1..Len(g_fetched[r]) :
              normalize_url(g_fetched[r][i]) = normalize_url(g_fetched[r][k]) => i = k
        /\ \A i \in 1..Len(g_fetched[r]) : g_fetched[r][i] = normalize_url(g_fetched[r][i])
        /\ pc[r] = "fetch" => url[r] \notin visited[r]

\* the handler fetches no two URLs with success whose normalized forms are equal
HandlerFetchesOnce ==
    \A i, k \in 1..Len(all_urls) :
        normalize_url(all_urls[i]) = normalize_url(all_urls[k]) => i = k

\* C1: within one crawl job the fetcher is invoked at most once per normalized
\* URL (a fetch repeated after a fetch error is not counted): a URL in the
\* visited set of the job is never fetched again, in the runner's job and in
\* the handler's request alike.
C1_FetchAtMostOnce == RunnerFetchesOnce /\ HandlerFetchesOnce

\* C2: a URL that robots.txt disallows is never handed to the fetcher.
C2_RobotsRespected ==
    \A r \in Runners : \A i \in 1..Len(g_fetched[r]) : is_allowed(g_fetched[r][i])

\* C4: a submitted job is claimed by at most one runner: no job id is claimed
\* twice, a job being processed is no longer in the shared job set, and two
\* runners never process the same job.
C4_ClaimedOnce ==
    /\ \A id \in 1..MaxJobs : g_claims[id] <= 1
    /\ \A r \in Runners : job[r] # NoJob =>
          /\ \A o \in Origins : crawl_requests[o].id # job[r].id
          /\ \A r2 \in Runners \ {r} : job[r2].id # job[r].id

\* C4 case: two jobs were submitted, runners 1 and 2 polled the job set
\* concurrently and each is processing one of them
C4_Witness ==
    /\ job[1] # NoJob /\ job[2] # NoJob
    /\ g_claims[job[1].id] = 1 /\ g_claims[job[2].id] = 1
    /\ pc[1] = "fetch" /\ pc[2] = "fetch"

\* C5: the frontier is consumed in FIFO order (what was popped, followed by
\* what is still queued, is exactly what was pushed, in push order), the first
\* URL fetched is the normalized seed, fetches happen in non-decreasing depth,
\* and a URL of depth d+1 is in the frontier only after a URL of depth d was
\* fetched.
C5_FifoBfs ==
    \A r \in Runners : job[r] # NoJob =>
        /\ Popped(r) \o to_visit[r] = g_pushed[r]
        /\ g_fetched[r] # <<>> => g_fetched[r][1] = normalize_url(job[r].url)
        /\ \A i, k \in 1..Len(g_fetched[r]) :
              i <= k => g_depth[r][g_fetched[r][i]] <= g_depth[r][g_fetched[r][k]]
        /\ \A i \in 1..Len(g_pushed[r]) :
              g_depth[r][g_pushed[r][i]] > 0 =>
                  \E k \in 1..Len(g_fetched[r]) :
                      g_depth[r][g_fetched[r][k]] + 1 = g_depth[r][g_pushed[r][i]]

\* C5 case: the seed's page held two links; the first was fetched while the
\* second waited, and its page's link went behind the waiting one
C5_Witness ==
    /\ Len(g_fetched[1]) = 2
    /\ Len(to_visit[1]) = 2
    /\ g_depth[1][to_visit[1][1]] = 1
    /\ g_depth[1][to_visit[1][2]] = 2

\* C6: a URL whose depth exceeds the job's max_depth is never fetched.
C6_DepthRespected ==
    \A r \in Runners : \A i \in 1..Len(g_fetched[r]) :
        g_depth[r][g_fetched[r][i]] <= job[r].max_depth

\* in a runner's job with same_domain = true every URL pushed to the frontier
\* or fetched has the origin of the seed URL
RunnerSameOrigin ==
    \A r \in Runners : (job[r] # NoJob /\ job[r].same_domain) =>
        /\ \A i \in 1..Len(g_pushed[r]) : get_base_url(g_pushed[r][i]) = get_base_url(job[r].url)
        /\ \A i \in 1..Len(g_fetched[r]) : get_base_url(g_fetched[r][i]) = get_base_url(job[r].url)
        /\ \A i \in 1..Len(to_visit[r]) : get_base_url(to_visit[r][i]) = get_base_url(job[r].url)

\* every URL the handler fetches or queues is of the host of the request's URL
HandlerSameOrigin ==
    /\ \A i \in 1..Len(g_requested) : g_requested[i].o = req.url.o
    /\ \A i \in 1..Len(next_level_urls) : next_level_urls[i].o = req.url.o

\* C7: every URL fetched in a job restricted to the seed's domain has the
\* origin of the seed URL: a link of another origin is never pushed onto the
\* frontier, by the runner's link loop or by the handler's is_same_domain.
C7_SameOrigin == RunnerSameOrigin /\ HandlerSameOrigin

\* a runner counts at most max_pages pages in a job and hands the indexer no
\* more pages than it counted
RunnerPagesBounded ==
    \A r \in Runners :
        /\ pages_crawled[r] <= job[r].max_pages
        /\ Cardinality(g_handed[r]) <= pages_crawled[r]

\* C8: the number of pages fetched and handed to the indexer in a job never
\* exceeds the job's max_pages, in the runner's job and in the handler's
\* request alike.
C8_PagesBounded == RunnerPagesBounded /\ pages_indexed <= req.max_pages

\* retries the specification grants a failed fetch
max_retries == 3

\* C9: a URL whose fetch failed is marked visited only once it was attempted
\* max_retries + 1 times; before that it goes back to the frontier.
C9_RetriedBeforeVisited ==
    \A r \in Runners : \A u \in g_failed[r] \cap visited[r] : Attempts(r, u) >= max_retries + 1

\* C10: of the pages whose normalized bodies are equal at most one is handed
\* to the indexer.
C10_OneIndexedPerBody ==
    \A r1, r2 \in Runners : \A h1 \in g_handed[r1], h2 \in g_handed[r2] :
        h1.body = h2.body => (r1 = r2 /\ h1.url = h2.url)

(***************************************************************************)
(* Shutdown and the job set                                                *)
(***************************************************************************)
\* requests for one page of any URL of the web: several URLs share an origin
QueueRequests ==
    [url : {u \in RawUrls : u.p # "y"}, max_pages : {1}, same_domain : {TRUE},
     max_depth : 0..MaxDepth]

\* SpecQueue: only runner 1 is scheduled, pages hold no links, requests name
\* any URL of the web
QueueNext == LoopNext({1}, QueueRequests, {<<>>})

SpecQueue == Init /\ [][QueueNext]_vars

\* runner r takes a URL off the frontier of its job in this step
Dequeues(r) ==
    /\ job[r] # NoJob
    /\ job'[r] = job[r]
    /\ Len(to_visit'[r]) < Len(to_visit[r])

\* a runner takes a job out of the job set in this step
ClaimsJob == g_claims' # g_claims

Queued(id) == \E o \in Origins : crawl_requests[o].id = id

\* C12: the job set holds at most one unclaimed job per origin: every entry
\* is filed under the origin of its URL and was never claimed; an enqueue
\* puts the new job in the place of the unclaimed job of its origin and
\* leaves the entries of every other origin unchanged; a job is claimed only
\* out of the job set, so a replaced job is never run.
C12_OnePerOrigin ==
    /\ [](\A o \in Origins : crawl_requests[o] # NoJob =>
             /\ get_base_url(crawl_requests[o].url) = o
             /\ g_claims[crawl_requests[o].id] = 0)
    /\ [][g_next_id' # g_next_id =>
             \E o \in Origins :
                /\ crawl_requests'[o].id = g_next_id'
                /\ get_base_url(crawl_requests'[o].url) = o
                /\ \A o2 \in Origins \ {o} : crawl_requests'[o2] = crawl_requests[o2]]_vars
    /\ [][\A id \in 1..MaxJobs : g_claims'[id] # g_claims[id] =>
             (Queued(id) /\ ~Queued(id)')]_vars

\* C12 case: job 1 was enqueued and, before any runner claimed it, job 2 was
\* enqueued with another URL of the same origin: job 1 is gone from the job
\* set and was never claimed
C12_Witness ==
    /\ g_next_id = 2
    /\ g_claims[1] = 0
    /\ ~Queued(1)
    /\ Queued(2)
    /\ \E o \in Origins : crawl_requests[o].id = 2 /\ crawl_requests[o].url.p = "x"

(***************************************************************************)
(* Locks and I/O                                                           *)
(***************************************************************************)
\* C13: no task holds a lock on shared state while it is suspended in an I/O
\* operation: a caller of the browser fetcher that is suspended in a call to
\* the browser does not hold the guard of the browser-pool lock.
C13_NoLockAcrossIo ==
    \A c \in Callers :
        (\E i \in 1..Len(BrowserIo) : b_pc[c] = BrowserIo[i]) => b_lock # c

(***************************************************************************)
(* The browser fallback                                                    *)
(***************************************************************************)
\* C14: for a page fetched over HTTP the browser fetcher is invoked exactly
\* once if the fallback is enabled and the HTTP body is empty, shorter than
\* browser_fallback_min_html_size or holds an SPA marker, and not at all
\* otherwise (never with the fallback disabled); the browser's body replaces
\* the HTTP body only if it is not empty, and the HTTP body is kept when the
\* browser fails or returns an empty body.
C14_BrowserFallback ==
    f_final # NoResult =>
        LET wanted == \/ IsBlank(f_html.text)
                      \/ Len(f_html.text) + f_html.pad < browser_fallback_min_html_size
                      \/ f_html.spa
        IN /\ f_calls = (IF f_enabled /\ wanted THEN 1 ELSE 0)
           /\ ~f_enabled => (f_calls = 0 /\ f_final.text = f_html.text)
           /\ f_final.text # f_html.text =>
                 (f_calls = 1 /\ f_browser.ok /\ ~IsBlank(f_browser.text)
                  /\ f_final.text = f_browser.text)
           /\ (f_calls = 1 /\ f_browser.ok /\ ~IsBlank(f_browser.text)) =>
                 f_final.text = f_browser.text
           /\ (~f_browser.ok \/ IsBlank(f_browser.text)) => f_final.text = f_html.text

\* C14 case: a body of exactly browser_fallback_min_html_size - 1 bytes with
\* no marker sent the page to the browser, which returned an empty body: the
\* HTTP body was kept
C14_Witness ==
    /\ f_final # NoResult
    /\ f_enabled
    /\ ~f_html.spa
    /\ Len(f_html.text) + f_html.pad = browser_fallback_min_html_size - 1
    /\ f_calls = 1
    /\ f_browser.ok /\ f_browser.text = <<" ">>
    /\ f_final.text = f_html.text

(***************************************************************************)
(* Re-indexing a page                                                      *)
(***************************************************************************)
\* C15: when a page is indexed again with the same URL and the same number N
\* of chunks, the store holds for that URL the same object IDs as after the
\* first indexing, chunk i under the ID made of "{url}#chunk{i}" and with the
\* properties written last; if the first indexing left N objects there are N
\* still: a write to an ID that exists overwrites, it neither adds nor fails.
C15_ReindexIdempotent ==
    (w_pc = "ok" /\ g_n[w_url] = Len(w_chunks)) =>
        /\ IdsOf(w_url) = g_ids[w_url]
        /\ \A i \in 0..(Len(w_chunks) - 1) :
              store[<<w_url, "#chunk", i>>] = w_chunks[i + 1]
        /\ Cardinality(g_ids[w_url]) = Len(w_chunks) =>
              Cardinality(IdsOf(w_url)) = Len(w_chunks)

\* C15 case: a page of two chunks, indexed before with two chunks, has been
\* indexed again by weaviate.rs (create, then update) with other texts, and
\* holds two objects
C15_Witness ==
    /\ w_pc = "ok"
    /\ w_impl = "weaviate"
    /\ g_n[w_url] = 2
    /\ w_chunks = <<"q", "p">>
    /\ Cardinality(g_ids[w_url]) = 2
    /\ Cardinality(IdsOf(w_url)) = 2

(***************************************************************************)
(* The chunker                                                             *)
(***************************************************************************)
\* C16: every chunk with non-empty text that the chunker emits has a token
\* estimate of its full text of at most MAX_CHUNK_TOKENS, unless it is a
\* single sentence.
C16_ChunkWithinMax ==
    \A i \in 1..Len(chunks) :
        chunks[i].words > 0 =>
            \/ estimate_tokens(chunks[i].words) <= MAX_CHUNK_TOKENS
            \/ chunks[i].sentences = 1

\* C17: extract_webpage_data returns at least one chunk; for a page with no
\* content block it returns exactly one chunk, with empty content and the
\* url, title and description of the page.
C17_AtLeastOneChunk ==
    k_pc = "done" =>
        /\ Len(k_result) >= 1
        /\ k_nblocks = 0 =>
              k_result = <<[words |-> 0, sentences |-> 0, url |-> k_page.url,
                            title |-> k_page.title,
                            description |-> k_page.description]>>
        /\ \A i \in 1..Len(k_result) :
              /\ k_result[i].url = k_page.url
              /\ k_result[i].title = k_page.title
              /\ k_result[i].description = k_page.description

\* C17 case: a titled page without content blocks came back as one chunk
C17_Witness ==
    /\ k_pc = "done"
    /\ k_nblocks = 0
    /\ k_page.title = "T"
    /\ Len(k_result) = 1
    /\ k_result[1].words = 0

(***************************************************************************)
(* robots.txt fails open                                                   *)
(***************************************************************************)
\* C18: RobotsCache::is_allowed returns true for a malformed URL and whenever
\* the robots.txt of the origin could not be obtained: a fetch that ends in a
\* network error or timeout, in a status that is not 2xx, or in a body that
\* cannot be read gives Failed, and a call that finds or stores Failed for its
\* origin returns true for every path; false is returned only against a
\* robots.txt that was obtained.
C18_RobotsFailOpen ==
    /\ \A c \in Callers :
          /\ (r_pc[c] = "write" /\ ~( /\ r_response[c].sent
                                      /\ r_response[c].status \in 200..299
                                      /\ r_response[c].readable ))
                => r_result[c].kind = "Failed"
          /\ r_pc[c] = "done" =>
                /\ ~r_url[c].valid => r_ret[c] = TRUE
                /\ (r_url[c].valid /\ cache[r_url[c].o].kind = "Failed") => r_ret[c] = TRUE
                /\ r_ret[c] = FALSE =>
                      /\ cache[r_url[c].o].kind = "Fetched"
                      /\ r_url[c].p \in cache[r_url[c].o].disallow
    /\ \A o \in Origins :
          cache[o].kind = "Failed" \/ cache[o].kind = "None" =>
              \A c \in Callers : (r_url[c].o = o /\ r_pc[c] = "done") => r_ret[c] = TRUE

\* C18 case: the fetch for origin a got a 503 whose body disallows /x, the
\* origin is cached as Failed and the call for /x returned true
C18_Witness ==
    \E c \in Callers :
        /\ r_pc[c] = "done"
        /\ r_url[c] = [valid |-> TRUE, o |-> "a", p |-> "x"]
        /\ r_response[c].sent /\ r_response[c].status = 503
        /\ "x" \in r_response[c].disallow
        /\ cache["a"].kind = "Failed"
        /\ r_ret[c] = TRUE

(***************************************************************************)
(* The dedup set as a function of the bodies submitted                     *)
(***************************************************************************)
\* a text with every run of spaces made one space and no space in front
RECURSIVE CollapseSpaces(_, _)
CollapseSpaces(s, after_space) ==
    IF s = <<>> THEN <<>>
    ELSE IF Head(s) = " "
         THEN (IF after_space THEN <<>> ELSE <<" ">>) \o CollapseSpaces(Tail(s), TRUE)
         ELSE <<Head(s)>> \o CollapseSpaces(Tail(s), FALSE)

\* a body lowercased, with whitespace runs collapsed, and trimmed
NormalForm(b) ==
    LET collapsed == CollapseSpaces([i \in 1..Len(b) |-> IF b[i] = "A" THEN "a" ELSE b[i]], TRUE)
    IN IF collapsed # <<>> /\ collapsed[Len(collapsed)] = " "
       THEN SubSeq(collapsed, 1, Len(collapsed) - 1)
       ELSE collapsed

\* C19: is_duplicate(b) returns true only if another call with a body of the
\* same normal form (lowercased, whitespace collapsed, trimmed) began before
\* it returned, and false only if no call with such a body had returned when
\* it began (for calls made one after the other: true iff an earlier call had
\* an equal normalized body); when no call is running, unique_count is the
\* number of distinct normal forms submitted, and it is always the number of
\* calls that returned false.
C19_DuplicateIffSeenBefore ==
    /\ \A c \in Callers :
          /\ d_ret[c] = "true" =>
                \E b \in g_other[c] : NormalForm(b) = NormalForm(d_content[c])
          /\ d_ret[c] = "false" =>
                \A b \in g_before[c] : NormalForm(b) # NormalForm(d_content[c])
    /\ Cardinality(seen_hashes) = g_false
    /\ (\A c \in Callers : d_pc[c] = "idle") =>
          Cardinality(seen_hashes) = Cardinality({NormalForm(b) : b \in g_submitted})

\* C19 case: three calls one after the other with "a", "A " and "b": the
\* second returned true, the others false, and unique_count is 2
C19_Witness ==
    /\ \A c \in Callers : d_pc[c] = "idle"
    /\ g_submitted = {<<"a">>, <<"A", " ">>, <<"b">>}
    /\ g_false = 2
    /\ Cardinality(seen_hashes) = 2
    /\ g_returned[<<"a">>].t = 1
    /\ g_returned[<<"a">>].w = 0

(***************************************************************************)
(* The re-ranker                                                           *)
(***************************************************************************)
\* the place of result id in a ranked list
PositionOf(ranked, id) == CHOOSE i \in 1..Len(ranked) : ranked[i].id = id

\* C20: with the query, the configuration and all other results the same,
\* a result whose base score is increased is, in the re-sorted output, at the
\* position it had or at a better one.
C20_RankMonotone ==
    rk_pc = "ranked" =>
        PositionOf(rk_out_raised, rk_k) <= PositionOf(rk_out, rk_k)

\* C20 case: the last of three results, with a base score 0.001 higher, has
\* after the exact-match boost the score of the result in front of it and
\* keeps its position behind it; nothing moved
C20_Witness ==
    /\ rk_pc = "ranked"
    /\ Len(rk_results) = 3
    /\ rk_k = 3
    /\ ~rk_query_empty
    /\ rk_results[3].base = 100 /\ rk_raised[3].base = 101
    /\ PositionOf(rk_out, 3) = 2
    /\ PositionOf(rk_out_raised, 3) = 2
    /\ rk_out_raised[1].score = rk_out_raised[2].score
    /\ rk_out[1].score = rk_out[2].score

(***************************************************************************)
(* The search response                                                     *)
(***************************************************************************)
\* C21: the results of GET /search have passed the re-ranker before the
\* response is built: the response list is ordered by descending adjusted
\* score (the score after apply_ranking_boost with the request's query).
C21_ResponseReranked ==
    (s_pc = "answered" /\ s_status = 200) =>
        \A i, j \in 1..Len(s_response) :
            i < j => apply_ranking_boost(s_items[s_response[i].id], s_query_empty)
                       >= apply_ranking_boost(s_items[s_response[j].id], s_query_empty)

(***************************************************************************)
(* The tables of CrawlState                                                *)
(***************************************************************************)
\* C22: after any sequence of CrawlState operations the pending table holds
\* at most one row per URL and the visited table at most one row per URL;
\* add_pending for a URL that is pending leaves the pending count as it was
\* and the row of the URL holds the retry_count, depth and domain given last;
\* mark_visited for a visited URL leaves the visited table as it was.
C22_OneRowPerUrl ==
    /\ \A r1, r2 \in pending_urls : r1.url = r2.url => r1 = r2
    /\ \A r1, r2 \in visited_urls : r1.url = r2.url => r1 = r2
    /\ t_last.op = "add_pending" =>
          /\ t_last.was_there => Cardinality(pending_urls) = t_last.pending_before
          /\ \E r \in pending_urls :
                /\ r.url = t_last.url
                /\ r.retry_count = t_last.retry_count
                /\ r.depth = t_last.depth
                /\ r.domain = t_last.domain
    /\ (t_last.op = "mark_visited" /\ t_last.was_there) =>
          visited_urls = t_last.visited_before

\* C22 case: with two URLs pending, add_pending was called for the pending
\* URL u with another retry_count, depth and domain: two rows still, and the
\* row of u holds the new values
C22_Witness ==
    /\ t_last.op = "add_pending"
    /\ t_last.was_there
    /\ t_last.url = "u"
    /\ t_last.pending_before = 2
    /\ Cardinality(pending_urls) = 2
    /\ \E r \in pending_urls : r.url = "u" /\ r.retry_count = 1 /\ r.depth = 1 /\ r.domain = "b"
    /\ t_ops = 3

\* the indexing call of runner r fails in this step
IndexFails(r) == g_index_err'[r] # g_index_err[r] /\ g_index_err'[r] # {}

\* every page whose indexing failed is visited and counted
FailedPagesStayVisited ==
    \A r \in Runners :
        /\ g_index_err[r] \subseteq visited[r]
        /\ g_index_err[r] # {} => pages_crawled[r] >= Cardinality(g_index_err[r])

(***************************************************************************)
(* C23: a failure of the indexer for a page does not abort or stall the    *)
(* runner's loop: in the step in which the indexing call fails the runner  *)
(* goes back to the head of its loop with the page still visited and       *)
(* counted and with the accepted links of the page appended to to_visit,   *)
(* and every page whose indexing failed stays visited while the job runs.  *)
(***************************************************************************)
C23_IndexFailureGoesOn ==
    /\ []FailedPagesStayVisited
    /\ [][\A r \in Runners : IndexFails(r) =>
            /\ pc[r] = "index" /\ pc'[r] = "crawl"
            /\ url[r] \in visited'[r]
            /\ visited'[r] = visited[r]
            /\ pages_crawled'[r] = pages_crawled[r]
            /\ pages_crawled[r] >= 1
            /\ \E links \in SmallLists :
                  to_visit'[r] = to_visit[r] \o Accepted(to_visit[r], visited[r], links, job[r])]_vars

\* a link of a page whose indexing failed is being fetched
C23_Witness ==
    /\ g_index_err[1] # {}
    /\ pc[1] = "fetch"
    /\ url[1] \notin g_index_err[1]
    /\ g_depth[1][url[1]] = 1
    /\ \E u \in g_index_err[1] : g_depth[1][u] = 0
(***************************************************************************)
(* Robots decisions and the skip counter                                   *)
(***************************************************************************)
\* caller c gets its robots decision in this step
Decides(c) == r_pc[c] \in {"read", "write"} /\ r_pc'[c] = "done"

\* C24: every robots decision that disallows a URL increments
\* pages_skipped_robots by exactly one, and a decision that allows the URL
\* leaves the counter as it is.
C24_DisallowCountedOnce ==
    [][\A c \in Callers : Decides(c) =>
          IF r_ret'[c] = FALSE
          THEN pages_skipped_robots' = inc_skipped_robots(pages_skipped_robots)
          ELSE pages_skipped_robots' = pages_skipped_robots]_vars

(***************************************************************************)
(* Fetches of robots.txt per origin                                        *)
(***************************************************************************)
\* C27 as stated: robots.txt is fetched at most once per origin, also with
\* concurrent is_allowed calls for the same uncached origin.
C27_FetchedOncePerOrigin ==
    \A o \in Origins : g_robots_fetches[o] <= 1

\* no caller is between its cache lookup and its store for origin o
NoneInFlight(o) ==
    \A c \in Callers : r_pc[c] \in {"fetch", "write"} => r_url[c].o # o

\* C27 amended: the cache entry of an origin is stored at most once and never
\* replaced; a fetch of robots.txt is started only by a call whose lookup
\* found no entry, so an origin is fetched once per call that was between its
\* lookup and its store when the entry was written, and never again after:
\* at most once per concurrent caller.
C27_EntryStoredOnce ==
    /\ [](\A o \in Origins :
            /\ g_robots_fetches[o] <= NumCallers
            /\ cache[o] # NoEntry => g_robots_fetches[o] >= 1)
    /\ [][\A o \in Origins :
            /\ cache[o] # NoEntry => cache'[o] = cache[o]
            /\ g_robots_fetches'[o] # g_robots_fetches[o] =>
                  \E c \in Callers : r_pc[c] = "fetch" /\ r_url[c].o = o
            /\ (cache[o] # NoEntry /\ NoneInFlight(o)) =>
                  g_robots_fetches'[o] = g_robots_fetches[o]
            /\ \A c \in Callers :
                  (r_pc[c] = "read" /\ r_pc'[c] = "fetch" /\ r_url[c].o = o) =>
                      cache[o] = NoEntry]_vars

\* C27 case: two calls fetched the robots.txt of one origin, the second got
\* another result than the first, and the cache kept the first
C27_Witness ==
    \E c \in Callers :
        /\ r_pc[c] = "done"
        /\ r_url[c].valid
        /\ g_robots_fetches[r_url[c].o] = 2
        /\ r_result[c] # NoEntry
        /\ cache[r_url[c].o] # r_result[c]

(***************************************************************************)
(* One browser pool per process                                            *)
(***************************************************************************)
\* C25: the browser pool is initialized at most once, also when several
\* tasks make their first browser fetch at the same time: initialize() returns
\* at most one BrowserPool, at most one task runs the initializer at a time,
\* the cell is never set again once it is set, and every fetch works on the
\* pool the cell holds.
C25_PoolInitializedOnce ==
    /\ [](/\ g_inits <= 1
          /\ Cardinality({c \in Callers : b_pc[c] = "initialize"}) <= 1
          /\ BROWSER_POOL # 0 => \A c \in Callers : b_pc[c] # "initialize"
          /\ \A c \in Callers :
                (b_pc[c] = "lock" \/ InSeq(b_pc[c], BrowserIo)) =>
                    (b_pool[c] # 0 /\ b_pool[c] = BROWSER_POOL))
    /\ [][BROWSER_POOL # 0 => BROWSER_POOL' = BROWSER_POOL]_vars

\* C25 case: both tasks called get() while the cell was unset, one ran the
\* initializer, and now both are fetching on the one pool
C25_Witness ==
    /\ g_inits = 1
    /\ \A c \in Callers : b_pool[c] = BROWSER_POOL
    /\ \E c \in Callers : InSeq(b_pc[c], BrowserIo)
    /\ \E c \in Callers : b_pc[c] = "lock"

(***************************************************************************)
(* Indexing a page again with fewer chunks                                 *)
(***************************************************************************)
\* the chunk index of an object ID
ChunkIndex(id) == id[3]

\* C26: indexing a URL again with M chunks, when the store holds N > M
\* objects for it, leaves the N - M objects with chunk indices M..N-1 as they
\* were: an indexing call writes and deletes only the objects of its own URL
\* with an index below its number of chunks, so after a successful call those
\* N - M old objects are still in the store next to the M new ones.
C26_StaleChunksRemain ==
    /\ []((w_pc = "ok" /\ g_n[w_url] > Len(w_chunks)
              /\ Cardinality(g_ids[w_url]) = g_n[w_url]) =>
            /\ IdsOf(w_url) = g_ids[w_url]
            /\ \A i \in 0..(Len(w_chunks) - 1) :
                  store[<<w_url, "#chunk", i>>] = w_chunks[i + 1]
            /\ Cardinality({id \in IdsOf(w_url) : ChunkIndex(id) >= Len(w_chunks)})
                  = g_n[w_url] - Len(w_chunks))
    /\ [][\A id \in ObjectIds :
            store'[id] # store[id] =>
                (id[1] = w_url /\ ChunkIndex(id) < Len(w_chunks))]_vars

\* C26 case: a page that held two objects has been indexed again by index.rs
\* (delete, then create) with one chunk, and its object of index 1 is still there
C26_Witness ==
    /\ w_pc = "ok"
    /\ w_impl = "index"
    /\ g_n[w_url] = 2
    /\ Len(w_chunks) = 1
    /\ Cardinality(g_ids[w_url]) = 2
    /\ store[<<w_url, "#chunk", 0>>] = w_chunks[1]
    /\ store[<<w_url, "#chunk", 1>>] # NoObject

(***************************************************************************)
(* The rate limiter of the runner                                          *)
(***************************************************************************)
\* runner r starts a fetch in this step
StartsFetch(r) == pc[r] # "fetch" /\ pc'[r] = "fetch"

\* C28: before each fetch of a URL u the runner goes through the rate limiter
\* of the origin of u, not that of the seed: the fetch starts with the
\* request time of get_base_url(u) set to now.
C28_LimiterOfUrlOrigin ==
    [][\A r \in Runners :
          (StartsFetch(r) /\ max_rps_per_base_url > 0) =>
              last_request_times'[get_base_url(url'[r])] = 0]_vars

(***************************************************************************)
(* A page whose final body is empty                                        *)
(***************************************************************************)
\* the fetch of runner r returned Ok with an empty final body in this step
EmptyBody(r) == pc[r] = "fetch" /\ pc'[r] = "crawl" /\ url[r] \notin g_failed'[r]

\* C30: a page whose final body is empty is marked visited, is not handed to
\* the indexer, has no links queued, and does not increment pages_crawled.
C30_EmptyBodyNotCounted ==
    [][\A r \in Runners : EmptyBody(r) =>
          /\ url[r] \in visited'[r]
          /\ g_handed'[r] = g_handed[r]
          /\ to_visit'[r] = to_visit[r]
          /\ pages_crawled'[r] = pages_crawled[r]]_vars

\* C29: for any origin, over all runners, two fetches never start less than
\* the minimum interval 1 / max_rps_per_base_url apart, also when two runners
\* found the limit used up and both slept: a fetch of a URL starts only when
\* the last start of a fetch for its origin is at least MinInterval old.
C29_FetchesSpaced ==
    [][\A r \in Runners :
          (StartsFetch(r) /\ max_rps_per_base_url > 0) =>
              LET last == last_request_times[get_base_url(url'[r])]
              IN last = -1 \/ last >= MinInterval]_vars

(***************************************************************************)
(* The frontier of a job                                                   *)
(***************************************************************************)
\* C36: at every point of a job's loop the frontier to_visit holds no URL
\* twice and no URL of the job's visited set.
C36_FrontierDistinctUnvisited ==
    \A r \in Runners :
        /\ \A i, k \in 1..Len(to_visit[r]) : to_visit[r][i] = to_visit[r][k] => i = k
        /\ \A i \in 1..Len(to_visit[r]) : to_visit[r][i] \notin visited[r]

\* C36 case: two pages were fetched, links were queued behind the frontier, and
\* a URL is still waiting
C36_Witness ==
    /\ pc[1] = "crawl"
    /\ Cardinality(visited[1]) = 2
    /\ Len(g_pushed[1]) = 3
    /\ to_visit[1] # <<>>

(***************************************************************************)
(* Termination of the loop of a job                                        *)
(***************************************************************************)
\* runner r is inside the while loop of a job
InLoop(r) == pc[r] \in {"crawl", "sleep", "fetch", "index"} /\ job[r] # NoJob

\* pages the job may still count, twice, plus one while the links of the page
\* just counted are still to be queued
Budget(r) ==
    2 * (job[r].max_pages - pages_crawled[r]) + (IF pc[r] = "index" THEN 1 ELSE 0)

\* awaits left before the iteration ends
Stage(r) == IF pc[r] = "sleep" THEN 2 ELSE IF pc[r] = "fetch" THEN 1 ELSE 0

\* <<Budget, Len(to_visit), Stage>> decreases in the lexicographic order
Decreases(r) ==
    \/ Budget(r)' < Budget(r)
    \/ /\ Budget(r)' = Budget(r)
       /\ Len(to_visit'[r]) < Len(to_visit[r])
    \/ /\ Budget(r)' = Budget(r)
       /\ Len(to_visit'[r]) = Len(to_visit[r])
       /\ Stage(r)' < Stage(r)

\* C35: the loop of every claimed job terminates, whatever the links of the
\* pages, provided each await returns: pages_crawled never exceeds max_pages,
\* every step of the loop either counts a page or leaves the count and adds
\* nothing to the frontier (links are queued only for a page just counted), the
\* triple of budget, frontier length and awaits left decreases with every
\* step, and under a fair scheduler a runner inside the loop leaves it.
C35_LoopTerminates ==
    /\ [](\A r \in Runners : InLoop(r) => Budget(r) >= 0)
    /\ [][\A r \in Runners :
            (InLoop(r) /\ InLoop(r)'
                /\ <<pc[r], to_visit[r], pages_crawled[r]>>' # <<pc[r], to_visit[r], pages_crawled[r]>>) =>
               /\ Decreases(r)
               /\ \/ pages_crawled'[r] = pages_crawled[r] + 1
                  \/ /\ pages_crawled'[r] = pages_crawled[r]
                     /\ pc[r] # "index"
                     /\ Len(to_visit'[r]) <= Len(to_visit[r])
                  \/ /\ pages_crawled'[r] = pages_crawled[r]
                     /\ pc[r] = "index"
                     /\ pages_crawled[r] >= 1]_vars
    /\ (InLoop(1) ~> ~InLoop(1))

\* C35 case: the runner is in the loop with one page counted and its links
\* queued, the fetch of a queued URL failed without being counted, and the next
\* URL is being fetched
C35_Witness ==
    /\ InLoop(1)
    /\ pc[1] = "fetch"
    /\ pages_crawled[1] = 1
    /\ g_failed[1] # {}
    /\ Len(g_pushed[1]) = 3

(***************************************************************************)
(* The tasks of a CrawlLoop                                                *)
(***************************************************************************)
\* C37: after any sequence of run() and stop() calls the number of live
\* runner tasks is at most max_concurrent_requests (NumRunners here).
C37_LiveTasksBounded ==
    Cardinality(LiveTasks) <= NumRunners

\* C38: once stop() has been called the shutdown flag is never reset: it stays
\* false, every runner spawned by a later run() leaves at its first check
\* without reaching the claim, and no request enqueued after stop() is ever
\* processed.
C38_StopIsFinal ==
    /\ [](g_stopped => ~cl_shutdown)
    /\ [][~cl_shutdown => ~cl_shutdown']_vars
    /\ [](\A t \in g_late : cl_pc[t] \in {"check", "exited", "aborted"} /\ cl_job[t] = "none")
    /\ [](\A t \in TaskIds : cl_pc[t] = "fetch" => cl_job[t] = "before")

\* C38 case: after stop() a request was enqueued and run() was called again;
\* a runner of that run() has exited and the request is still in the map
C38_Witness ==
    /\ g_stopped
    /\ \E t \in g_late : cl_pc[t] = "exited"
    /\ \E o \in Origins : cl_requests[o] /\ g_enq_after[o]

\* C39: while runners are running and shutdown is not signaled, every request
\* in the job set is eventually claimed unless a later enqueue for its base
\* URL replaces it, also while requests for other base URLs keep arriving.
C39_RequestEventuallyClaimed ==
    \A o \in Origins :
        (g_event[o] = "enqueued" /\ cl_runs > 0 /\ ~g_stopped)
            ~> (g_event[o] # "enqueued" \/ g_stopped)

(***************************************************************************)
(* The exact match boost                                                   *)
(***************************************************************************)
\* two letters that are equal or differ in case only
SameLetter(c, d) == c = d \/ {c, d} = {"a", "A"}

\* pat occurs in text when case is disregarded
OccursIgnoringCase(pat, text) ==
    \E i \in 0..(Len(text) - Len(pat)) :
        \A k \in 1..Len(pat) : SameLetter(text[i + k], pat[k])

\* C33: apply_ranking_boost adds exact_match_boost exactly once if the query
\* is not empty and occurs, case disregarded, in the URL or in the title of
\* the result (once also when it occurs in both), and adds nothing otherwise.
C33_ExactMatchBoostOnce ==
    bo_pc = "boosted" =>
        IF /\ bo_query # <<>>
           /\ OccursIgnoringCase(bo_query, bo_url) \/ OccursIgnoringCase(bo_query, bo_title)
        THEN /\ bo_score = F32(bo_base + exact_match_boost)
             /\ bo_score > bo_base
        ELSE bo_score = bo_base

\* C33 case: the query Ab occurs in the URL as ab and in the title as Ab, and
\* the boost was added once
C33_Witness ==
    /\ bo_pc = "boosted"
    /\ bo_query = <<"A", "b">>
    /\ bo_url = <<"a", "b">>
    /\ bo_title = <<"A", "b">>
    /\ bo_score = F32(bo_base + exact_match_boost)

(***************************************************************************)
(* The words of the chunks                                                 *)
(***************************************************************************)
\* C40: create_chunks neither loses nor duplicates text: the words of the
\* contents of the chunks, in chunk order, are the words of the texts of the
\* blocks, in block order.
C40_WordsPreserved ==
    cw_pc = "done" => JoinAll(cw_chunks) = JoinAll(cw_blocks)

(***************************************************************************)
(* The links of a page                                                     *)
(***************************************************************************)
\* C31: every link extract_links returns is an absolute http or https URL,
\* with the scheme and the host of the href it came from, without a fragment,
\* and no URL is in the returned list twice.
C31_LinksAbsoluteDistinct ==
    el_pc = "done" =>
        /\ \A i \in 1..Len(el_links) :
              /\ el_links[i].scheme \in {"http", "https"}
              /\ ~el_links[i].frag
              /\ \E k \in 1..Len(el_elements) :
                    LET u == url_join(el_base, el_elements[k])
                    IN /\ ~el_elements[k].hidden
                       /\ el_elements[k].kind \in {"abs", "rel"}
                       /\ u.scheme = el_links[i].scheme
                       /\ u.www = el_links[i].www
                       /\ u.host = el_links[i].host
        /\ \A i, k \in 1..Len(el_links) : el_links[i] = el_links[k] => i = k

(***************************************************************************)
(* The headings of the blocks                                              *)
(***************************************************************************)
RECURSIVE NodePaths(_)
\* the places of the elements below children: the child indices from the top
NodePaths(children) ==
    UNION {{<<i>>} \cup {<<i>> \o q : q \in NodePaths(children[i].children)} :
           i \in 1..Len(children)}

RECURSIVE NodeAt(_, _)
NodeAt(children, q) ==
    IF Len(q) = 1 THEN children[q[1]] ELSE NodeAt(children[q[1]].children, Tail(q))

\* the place of the element that holds the element at q
ParentPath(q) == SubSeq(q, 1, Len(q) - 1)
IsPathPrefix(a, b) == Len(a) <= Len(b) /\ SubSeq(b, 1, Len(a)) = a

RECURSIVE ComesBefore(_, _)
\* document order: a starts before b
ComesBefore(a, b) ==
    IF a = <<>> THEN b # <<>>
    ELSE IF b = <<>> THEN FALSE
    ELSE IF a[1] # b[1] THEN a[1] < b[1]
    ELSE ComesBefore(Tail(a), Tail(b))

\* the paragraphs with text, and the headings with text
ParagraphPaths(doc) == {q \in NodePaths(doc) : NodeAt(doc, q).tag = "p" /\ NodeAt(doc, q).text # ""}
HeadingPaths(doc) == {q \in NodePaths(doc) : NodeAt(doc, q).tag = "h2" /\ NodeAt(doc, q).text # ""}

\* the index of the block of the paragraph at q
BlockIndex(doc, q) == Cardinality({p \in ParagraphPaths(doc) : ComesBefore(p, q)}) + 1

\* the headings before q in the containers around q
EnclosingHeadings(doc, q) ==
    {h \in HeadingPaths(doc) : ComesBefore(h, q) /\ IsPathPrefix(ParentPath(h), ParentPath(q))}

\* the most recent of them in document order, None without one
EnclosingHeading(doc, q) ==
    IF EnclosingHeadings(doc, q) = {} THEN "None"
    ELSE NodeAt(doc, CHOOSE h \in EnclosingHeadings(doc, q) :
                        \A g \in EnclosingHeadings(doc, q) : g = h \/ ComesBefore(g, h)).text

\* the paragraphs in a nested container with no heading before them in it
NestedBareParagraphs(doc) ==
    {q \in ParagraphPaths(doc) :
        /\ Len(q) >= 2
        /\ \A h \in EnclosingHeadings(doc, q) : ParentPath(h) # ParentPath(q)}

\* C32: a paragraph in a nested container with no heading of its own before it
\* gets the most recent heading, in document order, of the containers around
\* it: the heading goes into the recursion and is not reset at a container.
C32_HeadingPropagated ==
    eb_pc = "done" =>
        \A q \in NestedBareParagraphs(eb_doc) :
            /\ BlockIndex(eb_doc, q) <= Len(eb_blocks)
            /\ eb_blocks[BlockIndex(eb_doc, q)].heading = EnclosingHeading(eb_doc, q)

(***************************************************************************)
(* The answer of POST /plagiat                                             *)
(***************************************************************************)
\* C34: in the response of /plagiat is_plagiat is true exactly when
\* matched_documents is not empty, for every threshold and all hits, none
\* at all and a threshold of 0 or below among them.
C34_PlagiatIffMatched ==
    pl_pc = "answered" /\ pl_status = 200 =>
        (pl_response.is_plagiat <=> pl_response.matched_documents # <<>>)

====
